---------------------------- MODULE Spec2Model ----------------------------
(***************************************************************************)
(* ndspectral: Chebyshev transforms, composite-basis stencils and the      *)
(* banded tensor solver, as state machines over exact arithmetic.          *)
(*                                                                         *)
(* Real numbers.  A value of the program's type Real (f64) is modelled     *)
(* exactly, as an element (a + b*sqrt(r)) / d of the quadratic field       *)
(* Q(sqrt r), written <<a, b, d>> with d >= 1 and gcd(a, b, d) = 1.  The   *)
(* radicand r belongs to the basis: the cosines of a type-I DCT of size n  *)
(* lie in Q(sqrt r) for r = Radicand(n).  Rounding is not modelled, so     *)
(* "equal within 1e-3" is checked as exact equality.  A non-finite f64     *)
(* (inf or NaN, the result of a division by zero) is the single absorbing  *)
(* value NaN = <<0, 0, 0>>.                                                *)
(*                                                                         *)
(* Arrays.  A 1-D array is a sequence; the code's index i is the model's   *)
(* index i + 1.  A 2-D array is a sequence of rows.                        *)
(***************************************************************************)
EXTENDS Integers, Sequences, FiniteSets, TLC

---------------------------------------------------------------------------
(* Exact arithmetic in Q(sqrt r)                                           *)

Abs(k) == IF k < 0 THEN -k ELSE k

RECURSIVE Gcd(_, _)
Gcd(p, q) == IF q = 0 THEN p ELSE Gcd(q, p % q)

NaN == <<0, 0, 0>>

IsFinite(x) == x[3] # 0

\* (a + b*sqrt r) / d with the common factor g taken out and d made positive
Reduced(a, b, d, g) ==
    IF d < 0 THEN <<(-a) \div g, (-b) \div g, (-d) \div g>>
    ELSE <<a \div g, b \div g, d \div g>>

Norm(a, b, d) == IF d = 0 THEN NaN ELSE Reduced(a, b, d, Gcd(Gcd(Abs(a), Abs(b)), Abs(d)))

RInt(k) == <<k, 0, 1>>

RFrac(p, q) == Norm(p, 0, q)

Zero == <<0, 0, 1>>

One == <<1, 0, 1>>

RNeg(x) == <<-x[1], -x[2], x[3]>>

\* Sums and products cancel common factors before they multiply, so that the
\* intermediate integers stay small.
AddOver(x, y, g) ==
    Norm(x[1] * (y[3] \div g) + y[1] * (x[3] \div g),
         x[2] * (y[3] \div g) + y[2] * (x[3] \div g),
         x[3] * (y[3] \div g))

RAdd(x, y) == IF IsFinite(x) /\ IsFinite(y) THEN AddOver(x, y, Gcd(x[3], y[3])) ELSE NaN

RSub(x, y) == RAdd(x, RNeg(y))

MulOver(x, y, gx, gy, r) ==
    Norm((x[1] \div gx) * (y[1] \div gy) + r * (x[2] \div gx) * (y[2] \div gy),
         (x[1] \div gx) * (y[2] \div gy) + (x[2] \div gx) * (y[1] \div gy),
         (x[3] \div gy) * (y[3] \div gx))

RMul(x, y, r) ==
    IF IsFinite(x) /\ IsFinite(y)
    THEN MulOver(x, y, Gcd(Gcd(Abs(x[1]), Abs(x[2])), y[3]),
                       Gcd(Gcd(Abs(y[1]), Abs(y[2])), x[3]), r)
    ELSE NaN

\* 1 / y for a finite y # 0: the conjugate of y over its field norm
\* a^2 - r*b^2, which is rational and nonzero (r is no square)
RInv(y, r) ==
    IF y[2] = 0 THEN Norm(y[3], 0, y[1])
    ELSE Norm(y[1] * y[3], -(y[2] * y[3]), y[1] * y[1] - r * y[2] * y[2])

\* x / y; a division by zero is non-finite
RDiv(x, y, r) ==
    IF ~(IsFinite(x) /\ IsFinite(y)) \/ (y[1] = 0 /\ y[2] = 0) THEN NaN
    ELSE RMul(x, RInv(y, r), r)

---------------------------------------------------------------------------
(* Arrays                                                                  *)

Zeros(len) == [i \in 1..len |-> Zero]

Zeros2(rows, cols) == [i \in 1..rows |-> Zeros(cols)]

\* shape()[axis] of a 2-D array
Extent(arr, axis) == IF axis = 0 THEN Len(arr) ELSE IF Len(arr) = 0 THEN 0 ELSE Len(arr[1])

Transpose(arr) ==
    IF Len(arr) = 0 THEN <<>>
    ELSE [j \in 1..Len(arr[1]) |-> [i \in 1..Len(arr) |-> arr[i][j]]]

\* The lanes of arr along axis, in iteration order
Lanes(arr, axis) == IF axis = 0 THEN Transpose(arr) ELSE arr

\* The array whose lanes along axis are ls
FromLanes(ls, axis) == IF axis = 0 THEN Transpose(ls) ELSE ls

RECURSIVE SumSeq(_)
SumSeq(s) == IF Len(s) = 0 THEN Zero ELSE RAdd(s[1], SumSeq(Tail(s)))

\* The matrix-vector product M v over Q(sqrt r)
MatVec(M, v, r) == [i \in 1..Len(M) |-> SumSeq([j \in 1..Len(v) |-> RMul(M[i][j], v[j], r)])]

\* The matrix product A B over Q(sqrt r)
MatMul(A, B, r) ==
    [i \in 1..Len(A) |-> [j \in 1..Len(B[1]) |->
        SumSeq([k \in 1..Len(B) |-> RMul(A[i][k], B[k][j], r)])]]


---------------------------------------------------------------------------
(* Bounds of the model                                                     *)

\* Largest basis size n (the DCT cosines are tabulated up to n - 1 = 6)
MaxN == 6

\* Array entries are integers in 0..MaxVal
MaxVal == 1

\* Largest n_times handed to differentiate
MaxOrder == 2

\* The highest order of differentiate where orders of the size of the
\* basis and above are tried
MaxHighOrder == 5

\* Extent of a 2-D array along the axis that is not transformed
NLanes == 2

\* Number of operations in one run
MaxOps == 3

\* The coefficients of the diagonals of a banded matrix are in
\* -MaxCoeff..MaxCoeff
MaxCoeff == 1

\* Largest order of the matrix of a 1-D solver
MaxBandN == 5

\* Largest order of the matrices of a 2-D solver (eig is modelled up to 4)
MaxTensorN == 3

\* Number of elements of a divergence field
DivLen == 2

\* The time step dt is in 1..MaxDt, and 0 where integrate is checked
MaxDt == 2

\* Number of updates of a Navier2DPeriodic run on its own
MaxUpdates == 2

\* The timestep limit of integrate; the program's is 10_000_000
MAX_TIMESTEP == 3

\* Largest save_intervall handed to integrate
MaxSave == 2

\* The number of calls of write() outside integrate
MaxWrites == 2

\* Largest row stride of the arrays of the forward scenario
MaxStride == 4

---------------------------------------------------------------------------
(* Chebyshev basis: chebyshev.rs                                           *)

\* The field of the DCT-I cosines cos(pi*j/(n-1)): sqrt 2 for n = 5, sqrt 5
\* for n = 6, sqrt 3 for n = 7; rational (any radicand) otherwise.
Radicand(n) == IF n = 6 THEN 5 ELSE IF n = 7 THEN 3 ELSE 2

\* 2*cos(pi*j/nm) for 0 <= 2*j <= nm, nm in 1..6
TwoCosAcute(j, nm) ==
    IF j = 0 THEN RInt(2)
    ELSE IF 2 * j = nm THEN Zero
    ELSE IF 3 * j = nm THEN One
    ELSE IF 4 * j = nm THEN <<0, 1, 1>>
    ELSE IF 6 * j = nm THEN <<0, 1, 1>>
    ELSE IF 5 * j = nm THEN <<1, 1, 2>>
    ELSE <<-1, 1, 2>>

\* 2*cos(pi*f/nm) for 0 <= f <= nm
TwoCosHalfTurn(f, nm) ==
    IF 2 * f > nm THEN RNeg(TwoCosAcute(nm - f, nm)) ELSE TwoCosAcute(f, nm)

\* 2*cos(pi*k/nm) for 0 <= k < 2*nm
TwoCosTurn(k, nm) == TwoCosHalfTurn(IF k > nm THEN 2 * nm - k ELSE k, nm)

\* 2*cos(pi*j/nm) for any j >= 0
TwoCos(j, nm) == TwoCosTurn(j % (2 * nm), nm)

\* y[k] of the DCT-I of a lane x of length n
Dct1Entry(x, k, n, r) ==
    RAdd(RAdd(x[1], IF k % 2 = 0 THEN x[n] ELSE RNeg(x[n])),
         SumSeq([jj \in 1..(n - 2) |-> RMul(x[jj + 1], TwoCos(jj * k, n - 1), r)]))

\* ndrustfft's nddct1 along one lane (unnormalised DCT-I):
\*   y[k] = x[0] + (-1)^k x[n-1] + 2 * sum_{j=1..n-2} x[j] cos(pi*j*k/(n-1))
Dct1Lane(x) == [kk \in 1..Len(x) |-> Dct1Entry(x, kk - 1, Len(x), Radicand(Len(x)))]

\* Chebyshev::alternating_ones: sign[i] = (-1)^i
alternating_ones(n) == [ii \in 1..n |-> IF (ii - 1) % 2 = 0 THEN One ELSE RNeg(One)]

\* Chebyshev::new (the grid x is not modelled: no operation reads it)
ChebyshevNew(n) == [n |-> n, m |-> n, correct_dct |-> alternating_ones(n)]

\* A corrector without the alternating signs
ForwardCorrectorUnsigned(cheby, r) ==
    [i \in 1..cheby.n |-> RDiv(One, RInt(cheby.n - 1), r)]

\* forward: corrector = 1. / ((self.n - 1) * &self.correct_dct)
ForwardCorrector(cheby, r) ==
    [i \in 1..cheby.n |-> RDiv(One, RMul(RInt(cheby.n - 1), cheby.correct_dct[i], r), r)]

\* backward: corrector = &self.correct_dct / 2
BackwardCorrector(cheby, r) == [i \in 1..cheby.n |-> RDiv(cheby.correct_dct[i], RInt(2), r)]

\* v *= &corrector
ScaleLane(v, corrector, r) == [i \in 1..Len(v) |-> RMul(v[i], corrector[i], r)]

\* A forward transform that leaves the end coefficients as they are
HalveEndsOmitted(v, n, r) == v

\* v[0] /= 2; v[n-1] /= 2
HalveEnds(v, n, r) == [v EXCEPT ![1] = RDiv(@, RInt(2), r), ![n] = RDiv(@, RInt(2), r)]

\* v[0] *= 2; v[n-1] *= 2
DoubleEnds(v, n, r) == [v EXCEPT ![1] = RMul(@, RInt(2), r), ![n] = RMul(@, RInt(2), r)]

\* Chebyshev::forward on one lane: DCT-I, then the correction
ChebForwardLane(cheby, x) ==
    HalveEnds(ScaleLane(Dct1Lane(x), ForwardCorrector(cheby, Radicand(cheby.n)),
                        Radicand(cheby.n)),
              cheby.n, Radicand(cheby.n))

\* Chebyshev::backward on one lane: the correction, then DCT-I
ChebBackwardLane(cheby, c) ==
    Dct1Lane(DoubleEnds(ScaleLane(c, BackwardCorrector(cheby, Radicand(cheby.n)),
                                  Radicand(cheby.n)),
                        cheby.n, Radicand(cheby.n)))

\* differentiate, first loop: for i in lo..hi (exclusive): out[i] = 2(i+1) out[i+1]
RECURSIVE DiffScaleLoop(_, _, _, _)
DiffScaleLoop(out, i, hi, r) ==
    IF i >= hi THEN out
    ELSE DiffScaleLoop([out EXCEPT ![i + 1] = RMul(RInt(2 * (i + 1)), out[i + 2], r)],
                       i + 1, hi, r)

\* differentiate, second loop: for i in (lo..hi).rev(), i being the next index
\* to visit: out[i] = out[i] + out[i+2]
RECURSIVE DiffAccLoop(_, _, _)
DiffAccLoop(out, i, lo) ==
    IF i < lo THEN out
    ELSE DiffAccLoop([out EXCEPT ![i + 1] = RAdd(out[i + 1], out[i + 3])], i - 1, lo)

\* A pass that leaves the last coefficient as the first loop left it
DiffZeroLastKept(out, n) == out

\* out[self.n - 1] = T::zero()
DiffZeroLast(out, n) == [out EXCEPT ![n] = Zero]

\* A differentiation whose last step adds out[2] unhalved
DiffFirstUnhalved(out, r) == [out EXCEPT ![1] = RAdd(out[1], out[3])]

\* out[0] = out[0] + out[2] / 2.0
DiffFirst(out, r) == [out EXCEPT ![1] = RAdd(out[1], RDiv(out[3], RInt(2), r))]

\* One pass of the loop body of Chebyshev::differentiate on a lane of length
\* n >= 3 (n = self.n = out.len())
DiffOnce(out, n) ==
    DiffFirst(DiffAccLoop(DiffZeroLast(DiffScaleLoop([out EXCEPT ![1] = out[2]],
                                                     1, n - 1, Radicand(n)), n),
                          n - 3, 1),
              Radicand(n))

\* for _ in 0..n_times
RECURSIVE ChebDiffLane(_, _, _)
ChebDiffLane(out, n, n_times) ==
    IF n_times = 0 THEN out ELSE ChebDiffLane(DiffOnce(out, n), n, n_times - 1)

---------------------------------------------------------------------------
(* Stencil of the composite Chebyshev bases: chebyshev.rs                  *)

\* StencilChebyshev::get_m
get_m(n) == n - 2

\* StencilChebyshev::dirichlet: diag = 1, low2 = -1
dirichlet(n) ==
    [n |-> n, m |-> get_m(n), diag |-> [i \in 1..get_m(n) |-> One],
     low2 |-> [i \in 1..get_m(n) |-> RInt(-1)]]

\* A Neumann stencil whose weights are not squared: low2[k] = -k / (k+2)
neumann_unsquared(n) ==
    [n |-> n, m |-> get_m(n), diag |-> [i \in 1..get_m(n) |-> One],
     low2 |-> [kk \in 1..get_m(n) |-> RFrac(-(kk - 1), kk + 1)]]

\* StencilChebyshev::neumann: diag = 1, low2[k] = -k^2 / (k+2)^2
neumann(n) ==
    [n |-> n, m |-> get_m(n), diag |-> [i \in 1..get_m(n) |-> One],
     low2 |-> [kk \in 1..get_m(n) |-> RFrac(-((kk - 1) * (kk - 1)), (kk + 1) * (kk + 1))]]

\* to_parent, the loop for i in 2..n-2: p[i] = diag[i]*c[i] + low2[i-2]*c[i-2]
RECURSIVE ToParentLoop(_, _, _, _, _, _)
ToParentLoop(st, p, c, i, hi, r) ==
    IF i >= hi THEN p
    ELSE ToParentLoop(st,
             [p EXCEPT ![i + 1] = RAdd(RMul(st.diag[i + 1], c[i + 1], r),
                                       RMul(st.low2[i - 1], c[i - 1], r))],
             c, i + 1, hi, r)

\* A to_parent that adds to the first two entries of the parent lane
ToParentHeadAdds(st, p, c, r) ==
    [p EXCEPT ![1] = RAdd(@, RMul(st.diag[1], c[1], r)),
              ![2] = RAdd(@, RMul(st.diag[2], c[2], r))]

\* to_parent: p[0] = diag[0]*c[0]; p[1] = diag[1]*c[1]
ToParentHead(st, p, c, r) ==
    [p EXCEPT ![1] = RMul(st.diag[1], c[1], r), ![2] = RMul(st.diag[2], c[2], r)]

\* A to_parent whose last row reads the coefficient of the row before it
ToParentTailRepeated(st, p, c, r) ==
    [p EXCEPT ![st.n - 1] = RMul(st.low2[st.n - 3], c[st.n - 3], r),
              ![st.n] = RMul(st.low2[st.n - 3], c[st.n - 3], r)]

\* to_parent: p[n-2] = low2[n-4]*c[n-4]; p[n-1] = low2[n-3]*c[n-3]
ToParentTail(st, p, c, r) ==
    [p EXCEPT ![st.n - 1] = RMul(st.low2[st.n - 3], c[st.n - 3], r),
              ![st.n] = RMul(st.low2[st.n - 2], c[st.n - 2], r)]

\* StencilChebyshev::to_parent, the closure on one pair of lanes (n >= 4):
\* it writes every entry of the parent lane p from the composite lane c
ToParentLane(st, p, c) ==
    ToParentTail(st, ToParentLoop(st, ToParentHead(st, p, c, Radicand(st.n)), c,
                                  2, st.n - 2, Radicand(st.n)),
                 c, Radicand(st.n))

\* tdma, forward sweep: for i in 2..n-2: w[i] = c[i] / (b[i] - a[i-2]*w[i-2])
RECURSIVE TdmaWLoop(_, _, _, _, _, _, _)
TdmaWLoop(w, a, b, c, i, hi, r) ==
    IF i >= hi THEN w
    ELSE TdmaWLoop([w EXCEPT ![i + 1] =
                        RDiv(c[i + 1], RSub(b[i + 1], RMul(a[i - 1], w[i - 1], r)), r)],
                   a, b, c, i + 1, hi, r)

\* tdma, forward sweep: for i in 2..n:
\*   g[i] = (d[i] - a[i-2]*g[i-2]) / (b[i] - a[i-2]*w[i-2])
RECURSIVE TdmaGLoop(_, _, _, _, _, _, _, _)
TdmaGLoop(g, w, a, b, d, i, hi, r) ==
    IF i >= hi THEN g
    ELSE TdmaGLoop([g EXCEPT ![i + 1] =
                        RDiv(RSub(d[i + 1], RMul(a[i - 1], g[i - 1], r)),
                             RSub(b[i + 1], RMul(a[i - 1], w[i - 1], r)), r)],
                   w, a, b, d, i + 1, hi, r)

\* tdma, back substitution: for i in (1..n-1).rev(), i being the next index to
\* visit: x[i-1] = g[i-1] - w[i-1]*x[i+1]
RECURSIVE TdmaXLoop(_, _, _, _, _, _)
TdmaXLoop(x, g, w, i, lo, r) ==
    IF i < lo THEN x
    ELSE TdmaXLoop([x EXCEPT ![i] = RSub(g[i], RMul(w[i], x[i + 2], r))],
                   g, w, i - 1, lo, r)

\* tdma: w[0] = c[0] / b[0]; if c.len() > 1 { w[1] = c[1] / b[1] }
TdmaWHead(b, c, n, r) ==
    IF Len(c) > 1
    THEN [Zeros(n - 2) EXCEPT ![1] = RDiv(c[1], b[1], r), ![2] = RDiv(c[2], b[2], r)]
    ELSE [Zeros(n - 2) EXCEPT ![1] = RDiv(c[1], b[1], r)]

\* tdma: g[0] = d[0] / b[0]; g[1] = d[1] / b[1]
TdmaGHead(b, d, n, r) ==
    [Zeros(n) EXCEPT ![1] = RDiv(d[1], b[1], r), ![2] = RDiv(d[2], b[2], r)]

\* tdma: x[n-1] = g[n-1]; x[n-2] = g[n-2]; the back substitution
TdmaBack(g, w, n, r) ==
    TdmaXLoop([Zeros(n) EXCEPT ![n] = g[n], ![n - 1] = g[n - 1]], g, w, n - 2, 1, r)

\* tdma from the finished w on: the g loop, then the back substitution
TdmaSweep(w, a, b, d, n, r) ==
    TdmaBack(TdmaGLoop(TdmaGHead(b, d, n, r), w, a, b, d, 2, n, r), w, n, r)

\* StencilChebyshev::tdma: solves A x = d in place, A banded at offsets -2
\* (a), 0 (b), 2 (c).  With d.len() = 2 the arrays w and c are empty and
\* w[0] = c[0] / b[0] indexes out of bounds: ok = FALSE is that panic, with d
\* as it was.
tdma(a, b, c, d, r) ==
    IF Len(c) = 0 THEN [ok |-> FALSE, val |-> d]
    ELSE [ok |-> TRUE,
          val |-> TdmaSweep(TdmaWLoop(TdmaWHead(b, c, Len(d), r), a, b, c, 2, Len(d) - 2, r),
                            a, b, d, Len(d), r)]

\* from_parent: the diagonal d of S^T S
NormalDiag(st, r) ==
    [i \in 1..st.m |-> RAdd(RMul(st.diag[i], st.diag[i], r), RMul(st.low2[i], st.low2[i], r))]

\* A from_parent that takes S^T S for diagonal
NormalOffDropped(st, r) == [i \in 1..(st.m - 2) |-> Zero]

\* from_parent: the off-diagonal u of S^T S
NormalOff(st, r) == [i \in 1..(st.m - 2) |-> RMul(st.diag[i + 2], st.low2[i], r)]

\* from_parent, "Multiply rhs": c[i] = diag[i]*p[i] + low2[i]*p[i+2], i in 0..m
FromParentRhs(st, p, r) ==
    [i \in 1..st.m |-> RAdd(RMul(st.diag[i], p[i], r), RMul(st.low2[i], p[i + 2], r))]

\* StencilChebyshev::from_parent, the closure on one lane: the rhs, then
\* tdma(&u, &d, &u, &mut c)
FromParentSolve(st, u, p, r) == tdma(u, NormalDiag(st, r), u, FromParentRhs(st, p, r), r)

FromParentLane(st, p) == FromParentSolve(st, NormalOff(st, Radicand(st.n)), p, Radicand(st.n))

---------------------------------------------------------------------------
(* Operations on whole arrays.  Each returns [ok, out]: out is the output  *)
(* array as the call leaves it, ok = FALSE is a panic.                     *)

\* Zip over the lanes of two arrays needs the same number of lanes
SameLaneCount(a, b, axis) == Extent(a, 1 - axis) = Extent(b, 1 - axis)

\* Chebyshev::check_array: self.n == data.shape()[axis]
check_array(cheby, arr, axis) == cheby.n = Extent(arr, axis)

\* StencilChebyshev::check_array: n == data.shape()[axis]
stencil_check_array(arr, axis, n) == n = Extent(arr, axis)

\* f applied to every lane of arr along axis
ForwardLanes(cheby, ls) == [l \in 1..Len(ls) |-> ChebForwardLane(cheby, ls[l])]

BackwardLanes(cheby, ls) == [l \in 1..Len(ls) |-> ChebBackwardLane(cheby, ls[l])]

\* Chebyshev::forward
ChebyshevForward(cheby, input, output, axis) ==
    IF ~check_array(cheby, input, axis) \/ ~check_array(cheby, output, axis)
       \/ ~SameLaneCount(input, output, axis)
    THEN [ok |-> FALSE, out |-> output]
    ELSE [ok |-> TRUE, out |-> FromLanes(ForwardLanes(cheby, Lanes(input, axis)), axis)]

\* Chebyshev::backward
ChebyshevBackward(cheby, input, output, axis) ==
    IF ~check_array(cheby, input, axis) \/ ~check_array(cheby, output, axis)
       \/ ~SameLaneCount(input, output, axis)
    THEN [ok |-> FALSE, out |-> output]
    ELSE [ok |-> TRUE, out |-> FromLanes(BackwardLanes(cheby, Lanes(input, axis)), axis)]

\* ndarray's assign: the right-hand side is broadcast to the shape of the
\* left-hand side, which needs every extent of it to be equal or 1
CanAssign(output, input) ==
    /\ Len(input) > 0 /\ Len(output) > 0
    /\ (Extent(input, 0) = Extent(output, 0) \/ Extent(input, 0) = 1)
    /\ (Extent(input, 1) = Extent(output, 1) \/ Extent(input, 1) = 1)

Assign(output, input) ==
    [i \in 1..Extent(output, 0) |-> [j \in 1..Extent(output, 1) |->
        input[IF Extent(input, 0) = 1 THEN 1 ELSE i][IF Extent(input, 1) = 1 THEN 1 ELSE j]]]

\* Whether differentiate panics inside its loop body: with n = 2 the body
\* runs out[0] = out[1], out[1] = 0 and then indexes out[2]
DiffBodyPanics(cheby, n_times) == cheby.n < 3 /\ n_times > 0

\* The lanes a panicking differentiate leaves behind: the lanes in touched
\* (those a worker thread reached) were written up to the failing index
DiffPanicLane(ln) == [ln EXCEPT ![1] = ln[2], ![2] = Zero]

DiffPanicLanes(ls, touched) ==
    [l \in 1..Len(ls) |-> IF l \in touched THEN DiffPanicLane(ls[l]) ELSE ls[l]]

DiffLanes(ls, n, n_times) == [l \in 1..Len(ls) |-> ChebDiffLane(ls[l], n, n_times)]

\* A differentiate that assigns the input to the output before it checks it
ChebyshevDifferentiateAssignFirst(cheby, input, output, n_times, axis, touched) ==
    IF ~CanAssign(output, input) THEN [ok |-> FALSE, out |-> output]
    ELSE IF ~check_array(cheby, input, axis) \/ DiffBodyPanics(cheby, n_times)
    THEN [ok |-> FALSE, out |-> Assign(output, input)]
    ELSE [ok |-> TRUE,
          out |-> FromLanes(DiffLanes(Lanes(Assign(output, input), axis), cheby.n, n_times),
                            axis)]

\* Chebyshev::differentiate.  The lanes are worked on in parallel
\* (par_for_each), so a panic leaves any nonempty set of lanes touched.
ChebyshevDifferentiate(cheby, input, output, n_times, axis, touched) ==
    IF ~check_array(cheby, input, axis) \/ ~CanAssign(output, input)
    THEN [ok |-> FALSE, out |-> output]
    ELSE IF DiffBodyPanics(cheby, n_times)
    THEN [ok |-> FALSE,
          out |-> FromLanes(DiffPanicLanes(Lanes(Assign(output, input), axis), touched), axis)]
    ELSE [ok |-> TRUE,
          out |-> FromLanes(DiffLanes(Lanes(Assign(output, input), axis), cheby.n, n_times),
                            axis)]

ToParentLanes(st, ps, cs) == [l \in 1..Len(ps) |-> ToParentLane(st, ps[l], cs[l])]

\* StencilChebyshev::to_parent
StencilToParent(st, composite_, parent_, axis) ==
    IF ~stencil_check_array(composite_, axis, st.m) \/ ~stencil_check_array(parent_, axis, st.n)
       \/ ~SameLaneCount(composite_, parent_, axis)
    THEN [ok |-> FALSE, out |-> parent_]
    ELSE [ok |-> TRUE,
          out |-> FromLanes(ToParentLanes(st, Lanes(parent_, axis), Lanes(composite_, axis)),
                            axis)]

FromParentLanes(st, ps) == [l \in 1..Len(ps) |-> FromParentLane(st, ps[l])]

\* The composite lanes after the Zip of from_parent, rs being the outcome of
\* the closure on each lane.  The lanes are visited in order; when tdma
\* panics (m = 2) it does so on the first lane, which then holds the
\* right-hand side S^T p written before the call.
FromParentCollect(rs, cs, axis) ==
    IF \A l \in 1..Len(rs) : rs[l].ok
    THEN [ok |-> TRUE, out |-> FromLanes([l \in 1..Len(rs) |-> rs[l].val], axis)]
    ELSE [ok |-> FALSE,
          out |-> FromLanes([l \in 1..Len(cs) |-> IF l = 1 THEN rs[1].val ELSE cs[l]], axis)]

\* StencilChebyshev::from_parent
StencilFromParent(st, parent_, composite_, axis) ==
    IF ~stencil_check_array(composite_, axis, st.m) \/ ~stencil_check_array(parent_, axis, st.n)
       \/ ~SameLaneCount(composite_, parent_, axis)
    THEN [ok |-> FALSE, out |-> composite_]
    ELSE FromParentCollect(FromParentLanes(st, Lanes(parent_, axis)),
                           Lanes(composite_, axis), axis)

---------------------------------------------------------------------------
(* Bases: Chebyshev, and the composite bases of derive_composite!          *)

\* The constructors new(n) of Chebyshev, ChebDirichlet and ChebNeumann
BasisNew(kind, n) ==
    IF kind = "Chebyshev"
    THEN [kind |-> kind, n |-> n, m |-> n, parent |-> ChebyshevNew(n)]
    ELSE [kind |-> kind, n |-> n, m |-> get_m(n), parent |-> ChebyshevNew(n),
          stencil |-> IF kind = "ChebDirichlet" THEN dirichlet(n) ELSE neumann(n)]

\* derive_composite! forward, second call: self.stencil.from_parent(&buffer,
\* output, axis), f being the outcome of parent.forward on the buffer
ForwardFromParent(b, f, output, axis) ==
    IF ~f.ok THEN [ok |-> FALSE, out |-> output]
    ELSE StencilFromParent(b.stencil, f.out, output, axis)

\* derive_composite!: forward = parent.forward into a buffer (a clone of the
\* input), then from_parent
CompositeForward(b, input, output, axis) ==
    ForwardFromParent(b, ChebyshevForward(b.parent, input, input, axis), output, axis)

\* derive_composite! backward, second call: self.parent.backward(&mut buffer,
\* output, axis), t being the outcome of to_parent on the buffer
BackwardFromBuffer(b, t, output, axis) ==
    IF ~t.ok THEN [ok |-> FALSE, out |-> output]
    ELSE ChebyshevBackward(b.parent, t.out, output, axis)

\* derive_composite!: backward = to_parent into a buffer (a clone of the
\* output), then parent.backward
CompositeBackward(b, input, output, axis) ==
    BackwardFromBuffer(b, StencilToParent(b.stencil, input, output, axis), output, axis)

\* derive_composite! differentiate, second call: self.parent.differentiate(
\* &buffer, output, n_times, axis)
DifferentiateFromBuffer(b, t, output, n_times, axis, touched) ==
    IF ~t.ok THEN [ok |-> FALSE, out |-> output]
    ELSE ChebyshevDifferentiate(b.parent, t.out, output, n_times, axis, touched)

\* derive_composite!: differentiate = to_parent into a buffer (a clone of the
\* output), then parent.differentiate
CompositeDifferentiate(b, input, output, n_times, axis, touched) ==
    DifferentiateFromBuffer(b, StencilToParent(b.stencil, input, output, axis),
                            output, n_times, axis, touched)

\* Transform::forward of a basis
TransformForward(b, input, output, axis) ==
    IF b.kind = "Chebyshev" THEN ChebyshevForward(b.parent, input, output, axis)
    ELSE CompositeForward(b, input, output, axis)

\* Transform::backward of a basis
TransformBackward(b, input, output, axis) ==
    IF b.kind = "Chebyshev" THEN ChebyshevBackward(b.parent, input, output, axis)
    ELSE CompositeBackward(b, input, output, axis)

\* Transform::differentiate of a basis
TransformDifferentiate(b, input, output, n_times, axis, touched) ==
    IF b.kind = "Chebyshev"
    THEN ChebyshevDifferentiate(b.parent, input, output, n_times, axis, touched)
    ELSE CompositeDifferentiate(b, input, output, n_times, axis, touched)

---------------------------------------------------------------------------
(* Banded solver Fdma and the helpers inv, eig, diag of solver::utils.     *)
(* Their files are not part of src/: they are modelled from the            *)
(* specification (sections 4.3 and 4.4).  All numbers here are rational.   *)

\* The row weight of the test matrices: entry (i, j) is coefficient * (i + 1)
\* when scaled, the coefficient otherwise
Weight(i, scaled) == IF scaled THEN i ELSE 1

\* The n x n matrix with the diagonals lo, di, u1, u2 at offsets -2, 0, 2, 4
Band(n, lo, di, u1, u2, scaled) ==
    [i \in 1..n |-> [j \in 1..n |->
        RInt(Weight(i, scaled) * (IF j = i - 2 THEN lo ELSE IF j = i THEN di
                                  ELSE IF j = i + 2 THEN u1 ELSE IF j = i + 4 THEN u2
                                  ELSE 0))]]

\* Fdma::from_matrix_raw: the four diagonals of a square matrix
from_matrix_raw(M) ==
    [n   |-> Len(M),
     low |-> [i \in 1..(Len(M) - 2) |-> M[i + 2][i]],
     dia |-> [i \in 1..Len(M) |-> M[i][i]],
     up1 |-> [i \in 1..(Len(M) - 2) |-> M[i][i + 2]],
     up2 |-> [i \in 1..(Len(M) - 4) |-> M[i][i + 4]]]

ScaleSeq(s, l) == [i \in 1..Len(s) |-> RMul(s[i], l, 2)]

AddSeq(s, t) == [i \in 1..Len(s) |-> RAdd(s[i], t[i])]

\* &fdma * l
FdmaScale(f, l) ==
    [n |-> f.n, low |-> ScaleSeq(f.low, l), dia |-> ScaleSeq(f.dia, l),
     up1 |-> ScaleSeq(f.up1, l), up2 |-> ScaleSeq(f.up2, l)]

\* &fdma + &other
FdmaAdd(f, g) ==
    [n |-> f.n, low |-> AddSeq(f.low, g.low), dia |-> AddSeq(f.dia, g.dia),
     up1 |-> AddSeq(f.up1, g.up1), up2 |-> AddSeq(f.up2, g.up2)]

\* sweep, row i (from one) with the multiplier w = low[i-2] / dia[i-2]: the
\* row above is subtracted w times, and w is cached in place of low[i-2]
SweepRow(f, i, w) ==
    [f EXCEPT !.dia[i] = RSub(@, RMul(w, f.up1[i - 2], 2)),
              !.up1 = IF i <= f.n - 2
                      THEN [@ EXCEPT ![i] = RSub(@, RMul(w, f.up2[i - 2], 2))]
                      ELSE @,
              !.low[i - 2] = w]

RECURSIVE SweepLoop(_, _)
SweepLoop(f, i) ==
    IF i > f.n THEN f
    ELSE SweepLoop(SweepRow(f, i, RDiv(f.low[i - 2], f.dia[i - 2], 2)), i + 1)

\* Fdma::sweep: forward elimination of the diagonal at offset -2, without
\* pivoting (the four diagonals are all the storage there is)
sweep(f) == SweepLoop(f, 3)

\* Fdma::solve, forward substitution with the cached multipliers
RECURSIVE FdmaForwardLoop(_, _, _)
FdmaForwardLoop(y, f, i) ==
    IF i > f.n THEN y
    ELSE FdmaForwardLoop([y EXCEPT ![i] = RSub(@, RMul(f.low[i - 2], y[i - 2], 2))],
                         f, i + 1)

\* The part of row i right of the diagonal, applied to x
UpperTerms(x, f, i) ==
    RAdd(IF i <= f.n - 2 THEN RMul(f.up1[i], x[i + 2], 2) ELSE Zero,
         IF i <= f.n - 4 THEN RMul(f.up2[i], x[i + 4], 2) ELSE Zero)

\* Fdma::solve, back substitution
RECURSIVE FdmaBackLoop(_, _, _)
FdmaBackLoop(x, f, i) ==
    IF i < 1 THEN x
    ELSE FdmaBackLoop([x EXCEPT ![i] = RDiv(RSub(@, UpperTerms(x, f, i)), f.dia[i], 2)],
                      f, i - 1)

\* Fdma::solve on one right-hand side b, the matrix having been swept
FdmaSolve(f, b) == FdmaBackLoop(FdmaForwardLoop(b, f, 3), f, f.n)

\* utils::diag(a, 0): the main diagonal
diag(M) == [i \in 1..Len(M) |-> M[i][i]]

\* A matrix banded at even offsets couples the index i only with i - 2 and
\* i + 2; up to order 4 it splits into blocks {i, i + 2} of order 2 or 1.
\* Partner(i, n) is the other index of i's block, 0 if there is none.
Partner(i, n) == IF i > 2 THEN i - 2 ELSE IF i + 2 <= n THEN i + 2 ELSE 0

\* The determinant of the block of i
BlockDet(M, i, j) ==
    IF j = 0 THEN M[i][i]
    ELSE RSub(RMul(M[i][i], M[j][j], 2), RMul(M[i][j], M[j][i], 2))

\* Entry (i, k) of the inverse, j being the partner of i
InvEntry(M, i, k, j) ==
    IF k = i THEN RDiv(IF j = 0 THEN One ELSE M[j][j], BlockDet(M, i, j), 2)
    ELSE IF k = j THEN RDiv(RNeg(M[i][k]), BlockDet(M, i, j), 2)
    ELSE Zero

Invertible(M) == \A i \in 1..Len(M) : BlockDet(M, i, Partner(i, Len(M))) # Zero

\* utils::inv, for such matrices of order up to 4.  ok = FALSE: the matrix is
\* singular and the call panics.
inv(M) ==
    IF ~Invertible(M) THEN [ok |-> FALSE, val |-> M]
    ELSE [ok |-> TRUE,
          val |-> [i \in 1..Len(M) |-> [k \in 1..Len(M) |->
                      InvEntry(M, i, k, Partner(i, Len(M)))]]]

\* The integer square root of a perfect square
IsSquare(k) == k >= 0 /\ \E s \in 0..k : s * s = k

ISqrt(k) == CHOOSE s \in 0..k : s * s = k

HasSqrt(x) == IsFinite(x) /\ x[2] = 0 /\ IsSquare(x[1]) /\ IsSquare(x[3])

RSqrt(x) == <<ISqrt(x[1]), 0, ISqrt(x[3])>>

\* The smaller and the larger index of the block {i, j}
Lo(i, j) == IF j = 0 \/ i < j THEN i ELSE j

Hi(i, j) == IF j = 0 \/ i > j THEN i ELSE j

\* Whether the block {lo, hi} has an off-diagonal entry
Coupled(X, lo, hi) == lo # hi /\ (X[lo][hi] # Zero \/ X[hi][lo] # Zero)

\* The discriminant (a - d)^2 + 4 b c of the block ((a, b), (c, d))
Disc(X, lo, hi) ==
    RAdd(RMul(RSub(X[lo][lo], X[hi][hi]), RSub(X[lo][lo], X[hi][hi]), 2),
         RMul(RInt(4), RMul(X[lo][hi], X[hi][lo], 2), 2))

\* The eigenvalue numbered i: of a coupled block, (a + d + s) / 2 for i = lo
\* and (a + d - s) / 2 for i = hi, s being the root of the discriminant
EigVal(X, i, lo, hi) ==
    IF ~Coupled(X, lo, hi) THEN X[i][i]
    ELSE RDiv(RAdd(RAdd(X[lo][lo], X[hi][hi]),
                   IF i = lo THEN RSqrt(Disc(X, lo, hi)) ELSE RNeg(RSqrt(Disc(X, lo, hi)))),
              RInt(2), 2)

\* Entry k of an eigenvector to the eigenvalue lam numbered i.  Its length
\* is free: every use of q is matched by one of p = q^-1.
EigVecEntry(X, k, i, lo, hi, lam) ==
    IF ~Coupled(X, lo, hi) THEN (IF k = i THEN One ELSE Zero)
    ELSE IF X[lo][hi] # Zero
    THEN (IF k = lo THEN X[lo][hi] ELSE IF k = hi THEN RSub(lam, X[lo][lo]) ELSE Zero)
    ELSE (IF k = lo THEN RSub(lam, X[hi][hi]) ELSE IF k = hi THEN X[hi][lo] ELSE Zero)

\* The matrices eig is modelled for: every coupled block has two distinct
\* rational eigenvalues
HasEig(X) ==
    \A i \in 1..Len(X) :
        Coupled(X, Lo(i, Partner(i, Len(X))), Hi(i, Partner(i, Len(X))))
            => /\ HasSqrt(Disc(X, Lo(i, Partner(i, Len(X))), Hi(i, Partner(i, Len(X)))))
               /\ Disc(X, Lo(i, Partner(i, Len(X))), Hi(i, Partner(i, Len(X)))) # Zero

EigVals(X) ==
    [i \in 1..Len(X) |->
        EigVal(X, i, Lo(i, Partner(i, Len(X))), Hi(i, Partner(i, Len(X))))]

EigVecs(X, l) ==
    [k \in 1..Len(X) |-> [i \in 1..Len(X) |->
        EigVecEntry(X, k, i, Lo(i, Partner(i, Len(X))), Hi(i, Partner(i, Len(X))), l[i])]]

EigOf(l, q) == [l |-> l, q |-> q, p |-> inv(q).val]

\* utils::eig: (l, q, p) with X = q diag(l) p and p = q^-1
eig(X) == EigOf(EigVals(X), EigVecs(X, EigVals(X)))

---------------------------------------------------------------------------
(* Tensor solver: solver/fdma_tensor.rs                                    *)

\* ndarray's dot of two matrices
dot(A, B) == MatMul(A, B, 2)

NoMatrix == [some |-> FALSE]

Some(M) == [some |-> TRUE, val |-> M]

\* from_matrix, an inner dimension that is not diagonal, the eigendecomposition
\* e of inv(c).dot(a) at hand: lam = l, fwd = p.dot(inv(c)), bwd = q
InnerDecomposed(e, cinv) ==
    [ok |-> TRUE, lam |-> e.l, fwd |-> Some(dot(e.p, cinv)), bwd |-> Some(e.q)]

\* from_matrix, an inner dimension that is not diagonal; ci = inv(c)
InnerFull(a, ci) ==
    IF ~ci.ok THEN [ok |-> FALSE]
    ELSE InnerDecomposed(eig(dot(ci.val, a)), ci.val)

\* A from_matrix that decomposes an inner dimension whatever its flag
InnerAlwaysFull(a, c, is_diag) == InnerFull(a, inv(c))

\* from_matrix, the loop body for an inner dimension
Inner(a, c, is_diag) ==
    IF is_diag THEN [ok |-> TRUE, lam |-> diag(a), fwd |-> NoMatrix, bwd |-> NoMatrix]
    ELSE InnerFull(a, inv(c))

\* from_matrix for N = 2 from the outcome of the inner dimension
TensorOf(inner, a, c) ==
    IF ~inner.ok THEN [ok |-> FALSE, val |-> [kind |-> "none"]]
    ELSE [ok |-> TRUE,
          val |-> [N |-> 2, n |-> Len(a),
                   fdma |-> <<from_matrix_raw(a), from_matrix_raw(c)>>,
                   fwd |-> <<inner.fwd>>, bwd |-> <<inner.bwd>>, lam |-> <<inner.lam>>,
                   singular |-> FALSE]]

\* A from_matrix that leaves the sweep of a 1-D problem to solve
from_matrix_unswept(a, c, a_is_diag, N) ==
    IF N = 1
    THEN [ok |-> TRUE,
          val |-> [N |-> 1, n |-> Len(a[1]),
                   fdma |-> <<from_matrix_raw(a[1]), from_matrix_raw(c[1])>>,
                   fwd |-> <<>>, bwd |-> <<>>, lam |-> <<>>, singular |-> FALSE]]
    ELSE TensorOf(Inner(a[1], c[1], a_is_diag[1]), a[N], c[N])

\* FdmaTensor::from_matrix for N in {1, 2}.  ok = FALSE: inv panicked.
from_matrix(a, c, a_is_diag, N) ==
    IF N = 1
    THEN [ok |-> TRUE,
          val |-> [N |-> 1, n |-> Len(a[1]),
                   fdma |-> <<sweep(from_matrix_raw(a[1])), from_matrix_raw(c[1])>>,
                   fwd |-> <<>>, bwd |-> <<>>, lam |-> <<>>, singular |-> FALSE]]
    ELSE TensorOf(Inner(a[1], c[1], a_is_diag[1]), a[N], c[N])

\* FdmaTensor<1>::solve
Tensor1Solve(t, input, output) ==
    IF Len(input) # t.n \/ Len(output) # t.n THEN [ok |-> FALSE, out |-> output]
    ELSE [ok |-> TRUE, out |-> FdmaSolve(t.fdma[1], input)]

\* A step 2 that solves with the combined matrix as it is
RowSolveUnswept(t, row, l) == FdmaSolve(FdmaAdd(t.fdma[1], FdmaScale(t.fdma[2], l)), row)

\* FdmaTensor<2>::solve, step 2 on one lane: fdma = &fdma[0] + &(&fdma[1] * l),
\* fdma.sweep(), fdma.solve(&helper, &mut out, 0)
RowSolve(t, row, l) == FdmaSolve(sweep(FdmaAdd(t.fdma[1], FdmaScale(t.fdma[2], l))), row)

\* A solve that returns the solution of the decoupled systems untransformed
Step3Skipped(t, out2) == [ok |-> TRUE, out |-> out2]

\* Step 3: output.assign(&q.dot(output)) if there is a bwd
Step3(t, out2) ==
    [ok |-> TRUE, out |-> IF t.bwd[1].some THEN dot(t.bwd[1].val, out2) ELSE out2]

\* Step 2 on the output of step 1.  helper has output.shape()[0] entries and
\* is assigned a lane of output.shape()[1] entries: with the two different
\* the first lane panics, the output being as step 1 left it.
Step2(t, out1) ==
    IF Extent(out1, 0) # Len(t.lam[1]) \/ Extent(out1, 0) # Extent(out1, 1)
    THEN [ok |-> FALSE, out |-> out1]
    ELSE Step3(t, [i \in 1..Len(out1) |-> RowSolve(t, out1[i], t.lam[1][i])])

\* A step 1 that adds the transformed right-hand side to the output instead
\* of assigning it
Step1Accumulates(t, rhs1, output) ==
    IF ~CanAssign(output, rhs1) THEN [ok |-> FALSE, out |-> output]
    ELSE Step2(t, [i \in 1..Len(output) |-> AddSeq(output[i], Assign(output, rhs1)[i])])

\* Step 1: output.assign(&p.dot(input)), or output.assign(&input)
Step1(t, rhs1, output) ==
    IF ~CanAssign(output, rhs1) THEN [ok |-> FALSE, out |-> output]
    ELSE Step2(t, Assign(output, rhs1))

\* A solve that finds the mismatch only after it has cleared the output
Tensor2SolveLateCheck(t, input, output) ==
    IF Extent(input, 0) # Len(t.lam[1]) \/ Extent(input, 1) # t.n
    THEN [ok |-> FALSE, out |-> Zeros2(Extent(output, 0), Extent(output, 1))]
    ELSE Step1(t, IF t.fwd[1].some THEN dot(t.fwd[1].val, input) ELSE input, output)

\* FdmaTensor<2>::solve (the axis is not used)
Tensor2Solve(t, input, output) ==
    IF Extent(input, 0) # Len(t.lam[1]) \/ Extent(input, 1) # t.n
    THEN [ok |-> FALSE, out |-> output]
    ELSE Step1(t, IF t.fwd[1].some THEN dot(t.fwd[1].val, input) ELSE input, output)

\* A closure of step 2 that solves from the helper before it refills it
ModeSolveStaleHelper(t, out, helper, i) ==
    IF Len(helper) # Len(out[i]) /\ Len(out[i]) # 1
    THEN [ok |-> FALSE, out |-> out, helper |-> helper]
    ELSE [ok |-> TRUE,
          out |-> [out EXCEPT ![i] = RowSolve(t, helper, t.lam[1][i])],
          helper |-> [k \in 1..Len(helper) |-> out[i][IF Len(out[i]) = 1 THEN 1 ELSE k]]]

\* The closure of step 2 on the lane i of the output: helper.assign(&out)
\* (which panics unless the lane has the helper's length, or one element),
\* then the solve of A + lam_i C from the helper into the lane
ModeSolve(t, out, helper, i) ==
    IF Len(helper) # Len(out[i]) /\ Len(out[i]) # 1
    THEN [ok |-> FALSE, out |-> out, helper |-> helper]
    ELSE [ok |-> TRUE,
          out |-> [out EXCEPT ![i] = RowSolve(t, [k \in 1..Len(helper) |->
                                  out[i][IF Len(out[i]) = 1 THEN 1 ELSE k]], t.lam[1][i])],
          helper |-> [k \in 1..Len(helper) |-> out[i][IF Len(out[i]) = 1 THEN 1 ELSE k]]]

\* The part of FdmaTensor<2>::solve before step 2: the check and step 1
SolveHead(t, input, output) ==
    IF Extent(input, 0) # Len(t.lam[1]) \/ Extent(input, 1) # t.n
       \/ ~CanAssign(output, IF t.fwd[1].some THEN dot(t.fwd[1].val, input) ELSE input)
    THEN [ok |-> FALSE, out |-> output]
    ELSE [ok |-> TRUE,
          out |-> Assign(output, IF t.fwd[1].some THEN dot(t.fwd[1].val, input) ELSE input)]

---------------------------------------------------------------------------
(* Poisson solver: solver/poisson.rs.  The operator matrices of the bases   *)
(* (Base::mass, laplace, laplace_inv, laplace_inv_eye) are not part of the  *)
(* sources at hand: the model is handed the results of get_a_from_space,    *)
(* get_c_from_space, get_is_diag_from_space and matvec_from_base.           *)

\* The model's 1e-10 is 1 / EpsDen (the integers of the model have 32 bits);
\* every nonzero eigenvalue of the model is larger in magnitude
EpsDen == 100

Eps == <<1, 0, EpsDen>>

\* x.abs() < y for rational x and y
AbsLess(x, y) == IsFinite(x) /\ Abs(x[1]) * y[3] < y[1] * x[3]

\* solver.lam[0] -= 1e-10: the scalar is subtracted from every element
ShiftLam(t) == [t EXCEPT !.lam[1] = [i \in 1..Len(t.lam[1]) |-> RSub(t.lam[1][i], Eps)]]

\* solver_from_space, from_matrix having returned r: the singularity handling.
\* notice: whether the line "Poisson seems singular! ..." was printed
HandleSingularity(r, N) ==
    IF ~r.ok THEN [ok |-> FALSE, val |-> r.val, notice |-> FALSE]
    ELSE IF N = 2 /\ AbsLess(r.val.lam[1][1], Eps)
    THEN [ok |-> TRUE, val |-> ShiftLam(r.val), notice |-> TRUE]
    ELSE [ok |-> TRUE, val |-> r.val, notice |-> FALSE]

solver_from_space(a, c, is_diag, N) == HandleSingularity(from_matrix(a, c, is_diag, N), N)

\* Poisson::from_space from the solver s and the matvecs of the bases
PoissonOf(s, mv) ==
    IF ~s.ok THEN [ok |-> FALSE, val |-> [kind |-> "none"]]
    ELSE [ok |-> TRUE, val |-> [N |-> s.val.N, solver |-> s.val, matvec |-> mv,
                                notice |-> s.notice]]

from_space(a, c, is_diag, mv, N) == PoissonOf(solver_from_space(a, c, is_diag, N), mv)

\* MatVecDot::solve(input, axis) on a 2-D array: the matrix applied along
\* the axis
MatVecDot2(M, x, ax) == IF ax = 0 THEN dot(M, x) ELSE dot(x, Transpose(M))

\* Poisson<f64, 1>::solve
Poisson1Solve(po, input, output) ==
    Tensor1Solve(po.solver,
                 IF po.matvec[1].some THEN MatVec(po.matvec[1].val, input, 2) ELSE input,
                 output)

\* Poisson<f64, 2>::solve, rhs being the input after matvec[0]
Poisson2Rhs(po, rhs0, output) ==
    Tensor2Solve(po.solver,
                 IF po.matvec[2].some THEN MatVecDot2(po.matvec[2].val, rhs0, 1) ELSE rhs0,
                 output)

\* A solve that leaves out the MatVec of axis 0
Poisson2SolveSkipsAxis0(po, input, output) == Poisson2Rhs(po, input, output)

\* Poisson<f64, 2>::solve
Poisson2Solve(po, input, output) ==
    Poisson2Rhs(po, IF po.matvec[1].some THEN MatVecDot2(po.matvec[1].val, input, 0) ELSE input,
                output)

---------------------------------------------------------------------------
(* Navier2DPeriodic: examples/navier_periodic.rs.  Field, Hholtz and        *)
(* conv_term are not part of the sources at hand.  A spectral array is      *)
(* modelled by its generation: the number of times it has been written.     *)
(* What a phase of update reads is recorded in the log of the update.  The  *)
(* numbers the solvers and derivatives produce are inputs of the model: an  *)
(* f64 is one of the classes of Floats.                                     *)

\* zero; finite; finite with a square beyond f64::MAX; +inf; -inf; NaN
Floats == {"zero", "fin", "big", "inf", "ninf", "nan"}

\* x.powi(2)
Sq(x) == IF x \in {"zero", "fin", "nan"} THEN x ELSE "inf"

\* x + y for x, y >= 0 or NaN
AddSquares(x, y) ==
    IF x = "nan" \/ y = "nan" THEN "nan"
    ELSE IF x = "inf" \/ y = "inf" THEN "inf"
    ELSE IF x = "zero" THEN y ELSE x

RECURSIVE SumSquares(_)
SumSquares(arr) ==
    IF Len(arr) = 0 THEN "zero"
    ELSE AddSquares(AddSquares(Sq(arr[1].re), Sq(arr[1].im)), SumSquares(Tail(arr)))

\* norm_l2: sqrt of the sum of re^2 + im^2; sqrt keeps the class of a
\* number >= 0, of +inf and of NaN
norm_l2(arr) == SumSquares(arr)

\* Navier2DPeriodic::from_fields: every array in its first generation, the
\* pressure fields zero, time = 0, no update running
NavierNew(dt) ==
    [kind |-> "navier", time |-> 0, dt |-> dt,
     ux |-> [vhat |-> 0, v |-> 0], uy |-> [vhat |-> 0, v |-> 0],
     temp |-> 0, pres0 |-> 0, pres1 |-> [vhat |-> 0, mode00 |-> "zero"],
     pc |-> "idle", that |-> 0, cux |-> 0, cuy |-> 0,
     div |-> [ux |-> 0, uy |-> 0, val |-> <<>>], log |-> <<>>, exited |-> FALSE,
     written |-> <<>>,
     diagnostics |-> [k \in {"time", "Nu", "Nuvol", "Re"} |-> <<>>],
     write_intervall |-> [kind |-> "none"], files |-> <<>>]

\* update, lines 475-484: that = temp.to_ortho() (+ bc); ux.backward();
\* uy.backward(); ux = self.ux.v.to_owned(); uy = self.uy.v.to_owned()
Capture(p) ==
    [p EXCEPT !.that = p.temp,
              !.ux.v = p.ux.vhat, !.uy.v = p.uy.vhat,
              !.cux = p.ux.vhat, !.cuy = p.uy.vhat,
              !.pc = "captured",
              !.log = <<[phase |-> "capture", ux |-> p.ux.vhat, uy |-> p.uy.vhat,
                         temp |-> p.temp, time |-> p.time]>>]

\* solve_ux(&ux, &uy): the right-hand side from ux.vhat, pres[0] and the
\* convection with the velocities handed in; the solve writes ux.vhat
SolveUx(p) ==
    [p EXCEPT !.ux.vhat = @ + 1, !.pc = "ux",
              !.log = Append(@, [phase |-> "solve_ux", conv |-> <<p.cux, p.cuy>>,
                                 old |-> p.ux.vhat, pres |-> p.pres0])]

\* solve_uy(&ux, &uy, &that)
SolveUy(p) ==
    [p EXCEPT !.uy.vhat = @ + 1, !.pc = "uy",
              !.log = Append(@, [phase |-> "solve_uy", conv |-> <<p.cux, p.cuy>>,
                                 old |-> p.uy.vhat, pres |-> p.pres0, buoy |-> p.that])]

\* divergence(): rhs = ux.grad([1, 0]) + uy.grad([0, 1]), of the values val
DivergenceOf(p, val) == [ux |-> p.ux.vhat, uy |-> p.uy.vhat, val |-> val]

\* let div = self.divergence() in update
Divergence(p, val) ==
    [p EXCEPT !.div = DivergenceOf(p, val), !.pc = "div",
              !.log = Append(@, [phase |-> "divergence", ux |-> p.ux.vhat, uy |-> p.uy.vhat])]

\* A solve_pres that leaves the zero mode as the Poisson solver wrote it
SolvePresUnfixed(p, c) ==
    [p EXCEPT !.pres1 = [vhat |-> p.pres1.vhat + 1, mode00 |-> c], !.pc = "pres",
              !.log = Append(@, [phase |-> "solve_pres", f |-> <<p.div.ux, p.div.uy>>])]

\* solve_pres(&div): the Poisson solve writes pres[1].vhat, its [0, 0]
\* element being c; then pres[1].vhat[[0, 0]] = 0
SolvePres(p, c) ==
    [p EXCEPT !.pres1 = [vhat |-> p.pres1.vhat + 1, mode00 |-> "zero"], !.pc = "pres",
              !.log = Append(@, [phase |-> "solve_pres", f |-> <<p.div.ux, p.div.uy>>])]

\* project_velocity(1.0): ux.vhat and uy.vhat from themselves and the
\* gradients of pres[1]
ProjectVelocity(p) ==
    [p EXCEPT !.ux.vhat = @ + 1, !.uy.vhat = @ + 1, !.pc = "projected",
              !.log = Append(@, [phase |-> "project_velocity", pres1 |-> p.pres1,
                                 ux |-> p.ux.vhat, uy |-> p.uy.vhat])]

\* update_pres(&div): pres[0].vhat -= div * nu; += pres[1].to_ortho() / dt
UpdatePres(p) ==
    [p EXCEPT !.pres0 = @ + 1, !.pc = "pres_updated",
              !.log = Append(@, [phase |-> "update_pres", pres1 |-> p.pres1, div |-> <<p.div.ux, p.div.uy>>])]

\* A solve_temp that convects with the velocities of this step
SolveTempNewVelocities(p) ==
    [p EXCEPT !.temp = @ + 1, !.pc = "temp",
              !.log = Append(@, [phase |-> "solve_temp", conv |-> <<p.ux.vhat, p.uy.vhat>>,
                                 old |-> p.temp, pres1 |-> p.pres1])]

\* solve_temp(&ux, &uy)
SolveTemp(p) ==
    [p EXCEPT !.temp = @ + 1, !.pc = "temp",
              !.log = Append(@, [phase |-> "solve_temp", conv |-> <<p.cux, p.cuy>>,
                                 old |-> p.temp, pres1 |-> p.pres1])]

\* self.time += self.dt, and update returns
AdvanceTime(p) ==
    [p EXCEPT !.time = @ + p.dt, !.pc = "idle",
              !.log = Append(@, [phase |-> "time", pres1 |-> p.pres1])]

\* exit(): div = self.divergence(); norm_l2(&div).is_nan()
NavierExit(p, val) ==
    [p EXCEPT !.div = DivergenceOf(p, val), !.exited = (norm_l2(val) = "nan")]

\* A phase applied to the state the phases before it have left
Then(S, Phase(_)) == {Phase(q) : q \in S}

Only(S) == CHOOSE q \in S : TRUE

\* update() from entry to return; val and c are the values the divergence
\* and the Poisson solve produce
Update(p, val, c) ==
    Only(Then(Then(Then(Then(Then(Then(Then(Then(Then({p},
        Capture), SolveUx), SolveUy), LAMBDA q : Divergence(q, val)),
        LAMBDA q : SolvePres(q, c)), ProjectVelocity), UpdatePres), SolveTemp),
        AdvanceTime))

\* write_to_file: the fields are transformed back and written to the file
\* of the time
write_to_file(p) ==
    [p EXCEPT !.ux.v = p.ux.vhat, !.uy.v = p.uy.vhat, !.files = Append(@, p.time)]

\* write(), lines 519-526: the field file is written if there is no
\* write_intervall, or the time is within dt / 2 of a multiple of it (the
\* remainder by 0.0 is NaN and compares false)
FileDue(p) ==
    IF p.write_intervall = [kind |-> "none"] THEN TRUE
    ELSE IF p.write_intervall.val = 0 THEN FALSE
    ELSE \/ 2 * (p.time % p.write_intervall.val) < p.dt
         \/ 2 * (p.time % p.write_intervall.val) > 2 * p.write_intervall.val - p.dt

\* if let Some(d) = self.diagnostics.get_mut(key) { d.push(val) }
Push(d, key, val) == IF key \in DOMAIN d THEN [d EXCEPT ![key] = Append(@, val)] ELSE d

\* write(), lines 543-555: one value is pushed to each series.  Nu and Nuvol
\* are evaluated from the temperature, Re from the velocities: the model
\* pushes the generation of the field.
Diagnose(p) ==
    [p EXCEPT !.diagnostics = Push(Push(Push(Push(@, "time", p.time), "Nu", p.temp),
                                        "Nuvol", p.temp), "Re", p.ux.vhat),
              !.written = Append(@, p.time)]

\* A write() that records the diagnostics only when it writes the field file
WriteDiagnosesWithFile(p) == IF FileDue(p) THEN Diagnose(write_to_file(p)) ELSE p

\* write(): the field file if it is due, then the diagnostics
Write(p) == Diagnose(IF FileDue(p) THEN write_to_file(p) ELSE p)

---------------------------------------------------------------------------
(* integrate: integrate.rs.  Times are integers, max_time and eps_dt are    *)
(* counted in units of 1e-4.                                                 *)

\* 1 / 1e-4, of let eps_dt = pde.get_dt() * 1e-4
TicksPerUnit == 10000

\* An integrate that tests the time limit before its first update
IntegrateEntryChecksFirst(p, max_time, save_intervall) ==
    [pc |-> "time", timestep |-> 0, eps_dt |-> p.dt, max_time |-> max_time,
     save_intervall |-> save_intervall, calls |-> <<>>]

\* lines 36-37: timestep = 0, eps_dt = pde.get_dt() * 1e-4
IntegrateEntry(p, max_time, save_intervall) ==
    [pc |-> "update", timestep |-> 0, eps_dt |-> p.dt, max_time |-> max_time,
     save_intervall |-> save_intervall, calls |-> <<>>]

\* A save test with a window of a whole step on either side
SaveDueWholeStep(p, dt_save) ==
    IF dt_save = 0 THEN FALSE
    ELSE \/ (p.time % dt_save) <= p.dt
         \/ (p.time % dt_save) >= dt_save - p.dt

\* (time % dt_save) < dt / 2 || (time % dt_save) > dt_save - dt / 2; the
\* remainder by 0.0 is NaN and compares false
SaveDue(p, dt_save) ==
    IF dt_save = 0 THEN FALSE
    ELSE \/ 2 * (p.time % dt_save) < p.dt
         \/ 2 * (p.time % dt_save) > 2 * dt_save - p.dt

\* pde.get_time() + eps_dt >= max_time
TimeLimit(p, l) == p.time * TicksPerUnit + l.eps_dt >= l.max_time

\* A limit that lets one more update through
StepLimitLate(timestep) == timestep > MAX_TIMESTEP

\* timestep >= MAX_TIMESTEP
StepLimit(timestep) == timestep >= MAX_TIMESTEP

\* A loop that goes on without polling exit
AfterStepCheckNoPoll(l) == IF StepLimit(l.timestep) THEN "returned" ELSE "update"

\* lines 58-62: break at the timestep limit, else call pde.exit()
AfterStepCheck(l) == IF StepLimit(l.timestep) THEN "returned" ELSE "exit"



VARIABLES
    basis,      \* the basis under test (Chebyshev, ChebDirichlet, ChebNeumann)
    axis,       \* the axis the operations run along
    data,       \* physical-space array
    vhat,       \* spectral-space array
    diff,       \* output array of differentiate
    order,      \* n_times of the last differentiate
    stencil,    \* the StencilChebyshev under test
    composite,  \* composite-space coefficients handed to the stencil
    parent,     \* parent-space coefficients handed to the stencil
    mats,       \* the arguments a, c, a_is_diag of from_matrix, and N
    tensor,     \* the FdmaTensor<N> built from them
    rhs,        \* right-hand side handed to solve
    sol,        \* output array of solve
    hist,       \* the operations performed so far, in order
    status,     \* "ok", or "panic" once an operation has panicked
    expected,   \* clones of the arrays taken before the first operation
    pde,        \* the Navier2DPeriodic (or the generic Integrate value) under test
    loop        \* the locals of integrate and its position in the loop

basesVars == <<basis, axis, data, vhat, diff, order>>

stencilVars == <<stencil, composite, parent>>

tensorVars == <<mats, tensor, rhs, sol>>

timeVars == <<pde, loop>>

vars == <<basis, axis, data, vhat, diff, order, stencil, composite, parent,
          mats, tensor, rhs, sol, hist, status, expected, pde, loop>>

None == [kind |-> "none"]

---------------------------------------------------------------------------
(* Inputs                                                                  *)

\* rows and columns of an array with the given extent along axis
Rows(ext, ax) == IF ax = 0 THEN ext ELSE NLanes

Cols(ext, ax) == IF ax = 0 THEN NLanes ELSE ext

\* The arrays of the tests: entry number k (row-major) is base + step*k
Ramp(rows, cols, base, step) ==
    [i \in 1..rows |-> [j \in 1..cols |-> RInt(base + step * ((i - 1) * cols + (j - 1)))]]

\* One nonzero entry
Spike(rows, cols, pi, pj, v) ==
    [i \in 1..rows |-> [j \in 1..cols |-> IF i = pi /\ j = pj THEN RInt(v) ELSE Zero]]

InputArrays(rows, cols) ==
    {Ramp(rows, cols, base, step) : base \in 0..MaxVal, step \in 0..MaxVal}
    \cup {Spike(rows, cols, pi, pj, v) : pi \in 1..rows, pj \in 1..cols, v \in 1..MaxVal}

Kinds == {"Chebyshev", "ChebDirichlet", "ChebNeumann"}

\* Smallest size a basis of a kind is built with: a Chebyshev grid needs two
\* points, to_parent of a stencil indexes low2[n - 4]
MinSize(kind) == IF kind = "Chebyshev" THEN 2 ELSE 4

NoStencil ==
    /\ stencil = None
    /\ composite = <<>>
    /\ parent = <<>>

NoTensor ==
    /\ mats = None
    /\ tensor = None
    /\ rhs = <<>>
    /\ sol = <<>>

NoBasis ==
    /\ basis = None
    /\ axis = 0
    /\ data = <<>>
    /\ vhat = <<>>
    /\ diff = <<>>
    /\ order = 0

NoIntegrate ==
    /\ pde = None
    /\ loop = None

Snapshot ==
    [data |-> data, vhat |-> vhat, diff |-> diff, composite |-> composite, parent |-> parent,
     sol |-> sol]

\* let (nx, ny) = (6, 4) of test_cheby_forward
nx == 6

ny == 4

\* The array of test_cheby_forward, filled row by row with 0, 1, 2, ..: its
\* rows are stride apart (stride = ny in the test), lane j starts at j - 1
Counting(stride) ==
    [i \in 1..nx |-> [j \in 1..NLanes |-> RInt(stride * (i - 1) + (j - 1))]]

\* expected of test_cheby_forward, axis 0, in units of 1e-5: lane j
Expected(j) == <<1000000 + 100000 * (j - 1), 837770, 0, 122220, 0, 40000>>

\* Chebyshev::new(nx) and a counting array to transform along axis 0
InitScenario ==
    /\ basis = BasisNew("Chebyshev", nx)
    /\ axis = 0
    /\ data \in {Counting(stride) : stride \in 1..MaxStride}
    /\ vhat = Zeros2(nx, NLanes)
    /\ diff = Zeros2(nx, NLanes)
    /\ order = 0
    /\ NoStencil
    /\ NoTensor
    /\ hist = <<>>
    /\ status = "ok"
    /\ expected = Snapshot
    /\ NoIntegrate

\* A basis and either a physical array to transform (vhat zeroed) or a
\* spectral array (data zeroed), as the tests set them up
InitTransform ==
    /\ \E kind \in Kinds : \E n \in MinSize(kind)..MaxN : \E ax \in {0, 1} :
         LET b == BasisNew(kind, n)
         IN  /\ basis = b
             /\ axis = ax
             /\ \/ /\ data \in InputArrays(Rows(b.n, ax), Cols(b.n, ax))
                   /\ vhat = Zeros2(Rows(b.m, ax), Cols(b.m, ax))
                \/ /\ vhat \in InputArrays(Rows(b.m, ax), Cols(b.m, ax))
                   /\ data = Zeros2(Rows(b.n, ax), Cols(b.n, ax))
             /\ diff = Zeros2(Rows(b.n, ax), Cols(b.n, ax))
    /\ order = 0
    /\ NoStencil
    /\ NoTensor
    /\ hist = <<>>
    /\ status = "ok"
    /\ expected = Snapshot
    /\ NoIntegrate

\* The scalars of a linear combination
Scalars == (-MaxCoeff)..(MaxCoeff + 1)

\* a*f + b*g, element by element
Combine(a, f, b, g, r) ==
    [i \in 1..Len(f) |-> [j \in 1..Len(f[i]) |->
        RAdd(RMul(RInt(a), f[i][j], r), RMul(RInt(b), g[i][j], r))]]

\* What a linear combination was made of
Parts(f, g, a, b) == [f |-> f, g |-> g, a |-> a, b |-> b]

\* A basis and a spectral array a*f + b*g to differentiate; the output array
\* holds earlier contents
InitLinear ==
    /\ \E kind \in Kinds : \E n \in MinSize(kind)..MaxN : \E ax \in {0, 1} :
       \E a \in Scalars : \E b \in Scalars :
         LET bs == BasisNew(kind, n)
         IN  /\ basis = bs
             /\ axis = ax
             /\ \E f \in InputArrays(Rows(bs.m, ax), Cols(bs.m, ax)) :
                \E g \in {Ramp(Rows(bs.m, ax), Cols(bs.m, ax), 1, 1),
                           Spike(Rows(bs.m, ax), Cols(bs.m, ax), Rows(bs.m, ax), 1, 1)} :
                  /\ vhat = Combine(a, f, b, g, Radicand(n))
                  /\ expected = Parts(f, g, a, b)
             /\ data = Zeros2(Rows(bs.n, ax), Cols(bs.n, ax))
             /\ diff = Ramp(Rows(bs.n, ax), Cols(bs.n, ax), 1, 1)
    /\ order = 0
    /\ NoStencil
    /\ NoTensor
    /\ hist = <<>>
    /\ status = "ok"
    /\ NoIntegrate

\* A stencil and either composite coefficients (parent zeroed) or parent
\* coefficients (composite zeroed)
InitStencil ==
    /\ \E kind \in {"dirichlet", "neumann"} : \E n \in 4..MaxN : \E ax \in {0, 1} :
         LET st == IF kind = "dirichlet" THEN dirichlet(n) ELSE neumann(n)
         IN  /\ stencil = st
             /\ axis = ax
             /\ \/ /\ composite \in InputArrays(Rows(st.m, ax), Cols(st.m, ax))
                   /\ parent = Zeros2(Rows(st.n, ax), Cols(st.n, ax))
                \/ /\ parent \in InputArrays(Rows(st.n, ax), Cols(st.n, ax))
                   /\ composite = Zeros2(Rows(st.m, ax), Cols(st.m, ax))
    /\ basis = None
    /\ data = <<>>
    /\ vhat = <<>>
    /\ diff = <<>>
    /\ order = 0
    /\ NoTensor
    /\ hist = <<>>
    /\ status = "ok"
    /\ expected = Snapshot
    /\ NoIntegrate

\* Extents along the axis that are off by one, or right
Offsets == {-1, 0, 1}

\* A basis or a stencil with arrays whose extents along the axis may differ
\* from the expected sizes; inputs and outputs hold different values
InitMismatch ==
    /\ \E ax \in {0, 1} :
         /\ axis = ax
         /\ \/ \E kind \in Kinds : \E n \in MinSize(kind)..MaxN :
               \E dd \in Offsets : \E dv \in Offsets : \E df \in Offsets :
                 /\ basis = BasisNew(kind, n)
                 /\ data = Ramp(Rows(n + dd, ax), Cols(n + dd, ax), 1, 1)
                 /\ vhat = Ramp(Rows(basis.m + dv, ax), Cols(basis.m + dv, ax), 2, 1)
                 /\ diff = Zeros2(Rows(n + df, ax), Cols(n + df, ax))
                 /\ NoStencil
            \/ \E kind \in {"dirichlet", "neumann"} : \E n \in 4..MaxN :
               \E dc \in Offsets : \E dp \in Offsets :
                 /\ stencil = (IF kind = "dirichlet" THEN dirichlet(n) ELSE neumann(n))
                 /\ composite = Ramp(Rows(stencil.m + dc, ax), Cols(stencil.m + dc, ax), 1, 1)
                 /\ parent = Ramp(Rows(n + dp, ax), Cols(n + dp, ax), 2, 1)
                 /\ basis = None
                 /\ data = <<>>
                 /\ vhat = <<>>
                 /\ diff = <<>>
    /\ order = 0
    /\ NoTensor
    /\ hist = <<>>
    /\ status = "ok"
    /\ expected = Snapshot
    /\ NoIntegrate

Coeffs == (0 - MaxCoeff)..MaxCoeff

\* Right-hand sides of length n: ramps and unit spikes
InputVectors(n) ==
    {[i \in 1..n |-> RInt(base + step * (i - 1))] : base \in 0..MaxVal, step \in 0..MaxVal}
    \cup {[i \in 1..n |-> IF i = k THEN RInt(v) ELSE Zero] : k \in 1..n, v \in 1..MaxVal}

\* The arguments of from_matrix a solver can be built from: c[0] singular
\* makes inv panic; eig is modelled for rational eigenvalues only
Buildable(m) ==
    m.N = 1 \/ m.is_diag[1] \/ ~Invertible(m.c[1]) \/ HasEig(dot(inv(m.c[1]).val, m.a[1]))

\* A banded matrix M and a right-hand side for FdmaTensor<1>, as
\* test_tensor1d sets them up: from_matrix([&M], [&M], [&false])
InitBanded ==
    /\ \E n \in 3..MaxBandN : \E scaled \in BOOLEAN :
       \E lo \in Coeffs : \E di \in Coeffs : \E u1 \in Coeffs : \E u2 \in Coeffs :
         /\ mats = [a |-> <<Band(n, lo, di, u1, u2, scaled)>>,
                    c |-> <<Band(n, lo, di, u1, u2, scaled)>>,
                    is_diag |-> <<FALSE>>, N |-> 1]
         /\ rhs \in InputVectors(n)
         /\ sol = Zeros(n)
    /\ tensor = None
    /\ NoBasis
    /\ NoStencil
    /\ hist = <<>>
    /\ status = "ok"
    /\ expected = Snapshot
    /\ NoIntegrate

\* Matrices A (offsets 0, 2) and C (offsets -2, 0, 2, 4) and a right-hand
\* side for FdmaTensor<2>, as test_tensor2d sets them up:
\* from_matrix([&A, &A], [&C, &C], [&d, &d]), d the diagonal flag
InitTensor ==
    /\ \E n \in 3..MaxTensorN : \E scaled \in BOOLEAN : \E d \in BOOLEAN :
       \E ad \in Coeffs : \E au \in Coeffs :
       \E lo \in Coeffs : \E di \in Coeffs : \E u1 \in Coeffs : \E u2 \in Coeffs :
         /\ mats = [a |-> <<Band(n, 0, ad, au, 0, scaled), Band(n, 0, ad, au, 0, scaled)>>,
                    c |-> <<Band(n, lo, di, u1, u2, scaled), Band(n, lo, di, u1, u2, scaled)>>,
                    is_diag |-> <<d, d>>, N |-> 2]
         /\ Buildable(mats)
         /\ rhs \in InputArrays(n, n)
         /\ sol = Zeros2(n, n)
    /\ tensor = None
    /\ NoBasis
    /\ NoStencil
    /\ hist = <<>>
    /\ status = "ok"
    /\ expected = Snapshot
    /\ NoIntegrate

\* A 1-D or 2-D solver and a right-hand side whose extents may be off by
\* one; the output already holds values.  The matrices of the two axes of a
\* 2-D solver have the orders n0 and n1.
InitSolveMismatch ==
    /\ \E N \in {1, 2} : \E n0 \in 2..MaxTensorN : \E n1 \in 2..MaxTensorN :
       \E d \in BOOLEAN : \E di \in Coeffs : \E u1 \in Coeffs :
       \E dr \in Offsets : \E dc \in Offsets :
         /\ mats = IF N = 1
                   THEN [a |-> <<Band(n1, 0, di, u1, 0, FALSE)>>,
                         c |-> <<Band(n1, 0, di, u1, 0, FALSE)>>,
                         is_diag |-> <<FALSE>>, N |-> 1]
                   ELSE [a |-> <<Band(n0, 0, di, u1, 0, FALSE), Band(n1, 0, di, u1, 0, FALSE)>>,
                         c |-> <<Band(n0, 0, di, u1, 0, FALSE), Band(n1, 0, di, u1, 0, FALSE)>>,
                         is_diag |-> <<d, d>>, N |-> 2]
         /\ N = 1 => (n0 = 2 /\ ~d /\ dr = 0)
         /\ rhs = IF N = 1 THEN [i \in 1..(n1 + dc) |-> RInt(i)]
                  ELSE Ramp(n0 + dr, n1 + dc, 1, 1)
         /\ sol = IF N = 1 THEN [i \in 1..n1 |-> RInt(i + 1)] ELSE Ramp(n0, n1, 2, 1)
    /\ tensor = None
    /\ NoBasis
    /\ NoStencil
    /\ hist = <<>>
    /\ status = "ok"
    /\ expected = Snapshot
    /\ NoIntegrate

Identity(n) == [i \in 1..n |-> [j \in 1..n |-> IF i = j THEN One ELSE Zero]]

\* The Laplacian of a Fourier basis with n wavenumbers 0..n-1: diagonal, -k^2
FourierLaplace(n) ==
    [i \in 1..n |-> [j \in 1..n |-> IF i = j THEN RInt(0 - (i - 1) * (i - 1)) ELSE Zero]]

\* The arguments a solver is built from.  N = 1: the banded matrix C as a
\* and another matrix, A, as c.  N = 2:
\* axis 1 has the pair (A, C); axis 0 is a Fourier axis (diagonal Laplacian,
\* mass the identity, no matvec) or has the pair (A, C) as well.  A Poisson
\* solver has, for every axis that is not Fourier, the matvec MV.
SolverArgs(N, fourier, A, C) ==
    IF N = 1 THEN [a |-> <<C>>, c |-> <<A>>, is_diag |-> <<FALSE>>, N |-> 1]
    ELSE [a |-> <<IF fourier THEN FourierLaplace(Len(A)) ELSE A, A>>,
          c |-> <<IF fourier THEN Identity(Len(A)) ELSE C, C>>,
          is_diag |-> <<fourier, FALSE>>, N |-> 2]

PoissonArgs(N, fourier, A, C, MV) ==
    [a |-> SolverArgs(N, fourier, A, C).a, c |-> SolverArgs(N, fourier, A, C).c,
     is_diag |-> SolverArgs(N, fourier, A, C).is_diag, N |-> N,
     mv |-> IF N = 1 THEN <<Some(MV)>>
            ELSE <<IF fourier THEN NoMatrix ELSE Some(MV), Some(MV)>>]

\* The kinds of Base
BaseKinds == {"Chebyshev", "CompositeChebyshev", "FourierC2c", "FourierR2c"}

\* Poisson::is_diag
is_diag(base) ==
    CASE base \in {"Chebyshev", "CompositeChebyshev"} -> FALSE
      [] base \in {"FourierC2c", "FourierR2c"} -> TRUE

\* A matvec_from_base that gives every base a MatVec
matvec_from_base_all(base, MV) == Some(MV)

\* Poisson::matvec_from_base, MV being laplace_inv without its first two rows
matvec_from_base(base, MV) ==
    CASE base \in {"Chebyshev", "CompositeChebyshev"} -> Some(MV)
      [] base \in {"FourierC2c", "FourierR2c"} -> NoMatrix

\* Poisson::matrix_from_base: the pair (A, C) of a Chebyshev or composite
\* base, (laplace, mass) of a Fourier base with n wavenumbers
matrix_from_base(base, A, C) ==
    CASE base \in {"Chebyshev", "CompositeChebyshev"} -> <<A, C>>
      [] base \in {"FourierC2c", "FourierR2c"} -> <<FourierLaplace(Len(A)), Identity(Len(A))>>

\* What from_space collects from the bases of a space: get_a_from_space,
\* get_c_from_space, get_is_diag_from_space and the matvecs
SpaceArgs(bases, A, C, MV) ==
    [a |-> [i \in 1..Len(bases) |-> matrix_from_base(bases[i], A, C)[1]],
     c |-> [i \in 1..Len(bases) |-> matrix_from_base(bases[i], A, C)[2]],
     is_diag |-> [i \in 1..Len(bases) |-> is_diag(bases[i])],
     N |-> Len(bases),
     mv |-> [i \in 1..Len(bases) |-> matvec_from_base(bases[i], MV)],
     bases |-> bases]

\* Right-hand sides and previous contents of the output for a solver of
\* order n
SolverInputs(N, n) ==
    IF N = 1
    THEN {[i \in 1..n |-> RInt(base + step * (i - 1))] : base \in 0..MaxVal, step \in 0..MaxVal}
         \cup {[i \in 1..n |-> IF i = 2 THEN One ELSE Zero]}
    ELSE {Ramp(n, n, base, step) : base \in 0..MaxVal, step \in 0..MaxVal}
         \cup {Spike(n, n, 2, 2, 1)}

OldOutputs(N, n) ==
    IF N = 1 THEN {Zeros(n), [i \in 1..n |-> RInt(i)]}
    ELSE {Zeros2(n, n), Ramp(n, n, 1, 1)}

\* The complex numbers of a divergence field: one part of any class, the
\* other one finite
Complexes ==
    {[re |-> x, im |-> "fin"] : x \in Floats}
    \cup {[re |-> "fin", im |-> y] : y \in Floats}

\* The divergence fields, flattened
DivArrays == [1..DivLen -> Complexes]

\* One divergence field without non-finite values, one with an infinity
\* and one with a NaN
DivSamples ==
    {[i \in 1..DivLen |-> [re |-> IF i = 1 THEN x ELSE "fin", im |-> "fin"]] :
        x \in {"fin", "inf", "nan"}}

\* max_time, in units of 1e-4: up to the time the timestep limit allows and
\* beyond, on a step, and one and two units of 1e-4 after it
MaxTimes ==
    {k * TicksPerUnit + e : k \in 0..(MAX_TIMESTEP * MaxDt + 1), e \in 0..2}

\* integrate(&mut pde, max_time, save_intervall) has been entered
InitIntegrate ==
    /\ \E dt \in 0..MaxDt : \E max_time \in MaxTimes :
       \E save_intervall \in {None} \cup {Some(dt_save) : dt_save \in 0..MaxSave} :
         /\ pde = NavierNew(dt)
         /\ loop = IntegrateEntry(pde, max_time, save_intervall)
    /\ NoBasis
    /\ NoStencil
    /\ NoTensor
    /\ hist = <<>>
    /\ status = "ok"
    /\ expected = Snapshot

\* A Navier2DPeriodic as from_fields returns it
InitNavier ==
    /\ pde \in {NavierNew(dt) : dt \in 1..MaxDt}
    /\ loop = None
    /\ NoBasis
    /\ NoStencil
    /\ NoTensor
    /\ hist = <<>>
    /\ status = "ok"
    /\ expected = Snapshot

\* A Navier2DPeriodic whose write_intervall the caller has set or left at
\* None
InitDiagnostics ==
    /\ \E dt \in 1..MaxDt :
       \E w \in {None} \cup {Some(dt_save) : dt_save \in 0..MaxSave} :
         pde = [NavierNew(dt) EXCEPT !.write_intervall = w]
    /\ loop = None
    /\ NoBasis
    /\ NoStencil
    /\ NoTensor
    /\ hist = <<>>
    /\ status = "ok"
    /\ expected = Snapshot

\* An FdmaTensor<2> to build and a right-hand side
InitModes ==
    /\ \E n \in 3..MaxTensorN : \E fourier \in BOOLEAN :
       \E ad \in Coeffs : \E lo \in Coeffs : \E di \in Coeffs : \E u1 \in Coeffs :
         /\ mats = SolverArgs(2, fourier, Band(n, 0, ad, 1, 0, FALSE),
                              Band(n, lo, di, u1, 0, FALSE))
         /\ Buildable(mats)
         /\ rhs \in SolverInputs(2, n)
         /\ sol = Ramp(n, n, 1, 1)
    /\ tensor = None
    /\ NoBasis
    /\ NoStencil
    /\ hist = <<>>
    /\ status = "ok"
    /\ expected = Snapshot
    /\ NoIntegrate

\* An FdmaTensor<1>, FdmaTensor<2> or Poisson solver to build, a right-hand
\* side and an output array with earlier contents
InitSolvers ==
    /\ \E N \in {1, 2} : \E n \in 3..MaxTensorN : \E poisson \in BOOLEAN :
       \E fourier \in BOOLEAN :
       \E ad \in Coeffs : \E lo \in Coeffs : \E di \in Coeffs : \E u1 \in Coeffs :
         /\ N = 1 => ~fourier /\ ad = 0
         /\ mats = IF poisson
                   THEN PoissonArgs(N, fourier, Band(n, 0, ad, 1, 0, FALSE),
                                    Band(n, lo, di, u1, 0, FALSE), Band(n, 0, 1, 1, 0, FALSE))
                   ELSE SolverArgs(N, fourier, Band(n, 0, ad, 1, 0, FALSE),
                                   Band(n, lo, di, u1, 0, FALSE))
         /\ Buildable(mats)
         /\ rhs \in SolverInputs(N, n)
         /\ sol \in OldOutputs(N, n)
    /\ tensor = None
    /\ NoBasis
    /\ NoStencil
    /\ hist = <<>>
    /\ status = "ok"
    /\ expected = Snapshot
    /\ NoIntegrate

\* A space of one or two bases of any kind, the Poisson solver to be built
\* from it, and a right-hand side
InitPoisson ==
    /\ \E N \in {1, 2} : \E bases \in [1..N -> BaseKinds] :
       \E lo \in Coeffs : \E di \in Coeffs : \E u1 \in Coeffs :
         /\ mats = SpaceArgs(bases, Band(MaxTensorN, 0, 0 - 1, 1, 0, FALSE),
                             Band(MaxTensorN, lo, di, u1, 0, FALSE),
                             Band(MaxTensorN, 0, 1, 1, 0, FALSE))
         /\ Buildable(mats)
         /\ rhs \in SolverInputs(N, MaxTensorN)
         /\ sol \in OldOutputs(N, MaxTensorN)
    /\ tensor = None
    /\ NoBasis
    /\ NoStencil
    /\ hist = <<>>
    /\ status = "ok"
    /\ expected = Snapshot
    /\ NoIntegrate

---------------------------------------------------------------------------
(* Actions                                                                 *)

CanRun == status = "ok" /\ Len(hist) < MaxOps

Outcome(r) == IF r.ok THEN "ok" ELSE "panic"

\* the call returned (or panicked) with r, its output array being vhat
ForwardDone(r) == vhat' = r.out /\ status' = Outcome(r)

\* basis.forward(&mut data, &mut vhat, axis)
Forward ==
    /\ CanRun /\ basis # None
    /\ ForwardDone(TransformForward(basis, data, vhat, axis))
    /\ hist' = Append(hist, "forward")
    /\ UNCHANGED <<basis, axis, data, diff, order, stencilVars, tensorVars, expected, timeVars>>

BackwardDone(r) == data' = r.out /\ status' = Outcome(r)

\* basis.backward(&mut vhat, &mut data, axis)
Backward ==
    /\ CanRun /\ basis # None
    /\ BackwardDone(TransformBackward(basis, vhat, data, axis))
    /\ hist' = Append(hist, "backward")
    /\ UNCHANGED <<basis, axis, vhat, diff, order, stencilVars, tensorVars, expected, timeVars>>

DifferentiateDone(r) == diff' = r.out /\ status' = Outcome(r)

\* The sets of lanes a panicking par_for_each may have reached
Touched(n_times) ==
    IF DiffBodyPanics(basis.parent, n_times)
    THEN SUBSET (1..Extent(diff, 1 - axis)) \ {{}} ELSE {{}}

\* basis.differentiate(&vhat, &mut diff, n_times, axis)
Differentiate ==
    /\ CanRun /\ basis # None
    /\ \E n_times \in 0..MaxOrder : \E touched \in Touched(n_times) :
         /\ DifferentiateDone(TransformDifferentiate(basis, vhat, diff, n_times, axis, touched))
         /\ order' = n_times
    /\ hist' = Append(hist, "differentiate")
    /\ UNCHANGED <<basis, axis, data, vhat, stencilVars, tensorVars, expected, timeVars>>

\* basis.differentiate(&vhat, &mut diff, n_times, axis) of any order up to
\* MaxHighOrder
DifferentiateHigh ==
    /\ CanRun /\ basis # None
    /\ \E n_times \in 0..MaxHighOrder : \E touched \in Touched(n_times) :
         /\ DifferentiateDone(TransformDifferentiate(basis, vhat, diff, n_times, axis, touched))
         /\ order' = n_times
    /\ hist' = Append(hist, "differentiate")
    /\ UNCHANGED <<basis, axis, data, vhat, stencilVars, tensorVars, expected, timeVars>>

ToParentDone(r) == parent' = r.out /\ status' = Outcome(r)

\* stencil.to_parent(&composite, &mut parent, axis)
ToParent ==
    /\ CanRun /\ stencil # None
    /\ ToParentDone(StencilToParent(stencil, composite, parent, axis))
    /\ hist' = Append(hist, "to_parent")
    /\ UNCHANGED <<basis, axis, data, vhat, diff, order, stencil, composite, tensorVars, expected, timeVars>>

FromParentDone(r) == composite' = r.out /\ status' = Outcome(r)

\* stencil.from_parent(&parent, &mut composite, axis)
FromParent ==
    /\ CanRun /\ stencil # None
    /\ FromParentDone(StencilFromParent(stencil, parent, composite, axis))
    /\ hist' = Append(hist, "from_parent")
    /\ UNCHANGED <<basis, axis, data, vhat, diff, order, stencil, parent, tensorVars, expected, timeVars>>

FromMatrixDone(r) == tensor' = r.val /\ status' = Outcome(r)

\* tensor = FdmaTensor::from_matrix(a, c, a_is_diag)
FromMatrix ==
    /\ CanRun /\ mats # None /\ tensor = None /\ "mv" \notin DOMAIN mats
    /\ FromMatrixDone(from_matrix(mats.a, mats.c, mats.is_diag, mats.N))
    /\ hist' = Append(hist, "from_matrix")
    /\ UNCHANGED <<basesVars, stencilVars, mats, rhs, sol, expected, timeVars>>

SolveDone(r) == sol' = r.out /\ status' = Outcome(r)

\* tensor.solve(&rhs, &mut sol, 0)
Solve ==
    /\ CanRun /\ tensor # None /\ "matvec" \notin DOMAIN tensor
    /\ SolveDone(IF tensor.N = 1 THEN Tensor1Solve(tensor, rhs, sol)
                 ELSE Tensor2Solve(tensor, rhs, sol))
    /\ hist' = Append(hist, "solve")
    /\ UNCHANGED <<basesVars, stencilVars, mats, tensor, rhs, expected, timeVars>>

\* tensor = Poisson::from_space(&space, c), the operator matrices of the space
\* being mats
FromSpace ==
    /\ CanRun /\ mats # None /\ tensor = None /\ "mv" \in DOMAIN mats
    /\ FromMatrixDone(from_space(mats.a, mats.c, mats.is_diag, mats.mv, mats.N))
    /\ hist' = Append(hist, "from_space")
    /\ UNCHANGED <<basesVars, stencilVars, mats, rhs, sol, expected, timeVars>>

\* poisson.solve(&rhs, &mut sol, 0)
PoissonSolve ==
    /\ CanRun /\ tensor # None /\ "matvec" \in DOMAIN tensor
    /\ SolveDone(IF tensor.N = 1 THEN Poisson1Solve(tensor, rhs, sol)
                 ELSE Poisson2Solve(tensor, rhs, sol))
    /\ hist' = Append(hist, "solve")
    /\ UNCHANGED <<basesVars, stencilVars, mats, tensor, rhs, expected, timeVars>>

\* Between two calls the caller fills the right-hand side anew and the output
\* holds whatever it held
NewInput ==
    /\ status = "ok" /\ tensor # None
    /\ rhs' \in SolverInputs(mats.N, Len(rhs))
    /\ sol' \in OldOutputs(mats.N, Len(rhs))
    /\ UNCHANGED <<basesVars, stencilVars, mats, tensor, hist, status, expected, timeVars>>

\* solve of an FdmaTensor<2>, up to step 2.  loop holds the position inside
\* the call: the modes done, the helper array, and the output of step 1
SolveStep1Done(r) ==
    /\ sol' = r.out
    /\ status' = Outcome(r)
    /\ loop' = [pc |-> "step2", done |-> {}, helper |-> Zeros(Extent(r.out, 0)),
                fhat |-> r.out]

SolveStep1 ==
    /\ CanRun /\ tensor # None /\ "matvec" \notin DOMAIN tensor /\ tensor.N = 2
    /\ loop = None
    /\ SolveStep1Done(SolveHead(tensor, rhs, sol))
    /\ hist' = Append(hist, "step1")
    /\ UNCHANGED <<basesVars, stencilVars, mats, tensor, rhs, expected, pde>>

SolveModeDone(r, i) ==
    /\ sol' = r.out
    /\ status' = Outcome(r)
    /\ loop' = [loop EXCEPT !.done = @ \cup {i}, !.helper = r.helper]

\* Step 2 for one mode; the modes are taken in any order
SolveMode ==
    /\ status = "ok" /\ loop # None /\ loop.pc = "step2"
    /\ \E i \in (1..Len(sol)) \ loop.done : SolveModeDone(ModeSolve(tensor, sol, loop.helper, i), i)
    /\ UNCHANGED <<basesVars, stencilVars, mats, tensor, rhs, hist, expected, pde>>

\* Step 3, all modes being done, and the return of solve
SolveStep3 ==
    /\ status = "ok" /\ loop # None /\ loop.pc = "step2" /\ loop.done = 1..Len(sol)
    /\ SolveDone(Step3(tensor, sol))
    /\ loop' = None
    /\ hist' = Append(hist, "solve")
    /\ UNCHANGED <<basesVars, stencilVars, mats, tensor, rhs, expected, pde>>

\* Everything but pde
notPde == <<basesVars, stencilVars, tensorVars, hist, status, expected, loop>>

\* A Navier2DPeriodic on its own, at the given position of update
At(pc) == pde # None /\ loop = None /\ pde.pc = pc

\* update is entered: the buoyancy temperature and the velocities are taken
UpdateCapture ==
    /\ At("idle") /\ pde.temp < MaxUpdates
    /\ pde' = Capture(pde)
    /\ UNCHANGED notPde

UpdateSolveUx ==
    /\ At("captured")
    /\ pde' = SolveUx(pde)
    /\ UNCHANGED notPde

UpdateSolveUy ==
    /\ At("ux")
    /\ pde' = SolveUy(pde)
    /\ UNCHANGED notPde

UpdateDivergence ==
    /\ At("uy")
    /\ \E val \in DivArrays : pde' = Divergence(pde, val)
    /\ UNCHANGED notPde

UpdateSolvePres ==
    /\ At("div")
    /\ \E c \in Floats : pde' = SolvePres(pde, c)
    /\ UNCHANGED notPde

UpdateProjectVelocity ==
    /\ At("pres")
    /\ pde' = ProjectVelocity(pde)
    /\ UNCHANGED notPde

UpdateUpdatePres ==
    /\ At("projected")
    /\ pde' = UpdatePres(pde)
    /\ UNCHANGED notPde

UpdateSolveTemp ==
    /\ At("pres_updated")
    /\ pde' = SolveTemp(pde)
    /\ UNCHANGED notPde

UpdateTime ==
    /\ At("temp")
    /\ pde' = AdvanceTime(pde)
    /\ UNCHANGED notPde

\* exit() called between two updates
Exit ==
    /\ At("idle")
    /\ \E val \in DivArrays : pde' = NavierExit(pde, val)
    /\ UNCHANGED notPde

\* navier.write(), called by the owner of the pde between two updates
NavierWrite ==
    /\ At("idle") /\ Len(hist) < MaxWrites
    /\ pde' = Write(pde)
    /\ hist' = Append(hist, "write")
    /\ UNCHANGED <<basesVars, stencilVars, tensorVars, status, expected, loop>>

NextTransform == Forward \/ Backward \/ Differentiate

NextStencil == ToParent \/ FromParent

\* The transforms of the three bases
SpecTransform == InitTransform /\ [][NextTransform]_vars

\* The stencil on its own
SpecStencil == InitStencil /\ [][NextStencil]_vars

\* differentiate on linear combinations
SpecLinear == InitLinear /\ [][Differentiate]_vars

\* test_cheby_forward, axis 0, and what may follow it
SpecScenario == InitScenario /\ [][NextTransform]_vars

\* differentiate of low and high orders on every basis
SpecOrders == InitTransform /\ [][DifferentiateHigh]_vars

NextMismatch == Forward \/ Backward \/ Differentiate \/ ToParent \/ FromParent

NextSolver == FromMatrix \/ Solve

\* The 1-D solver FdmaTensor<1>
SpecBanded == InitBanded /\ [][NextSolver]_vars

\* The 2-D solver FdmaTensor<2>
SpecTensor == InitTensor /\ [][NextSolver]_vars

NextSolvers == FromMatrix \/ FromSpace \/ Solve \/ PoissonSolve \/ NewInput

\* The three solvers, each built once and called again and again
SpecSolvers == InitSolvers /\ [][NextSolvers]_vars

NextPoisson == FromSpace \/ PoissonSolve \/ NewInput

\* Poisson solvers of spaces of every combination of bases
SpecPoisson == InitPoisson /\ [][NextPoisson]_vars

NextModes == FromMatrix \/ SolveStep1 \/ SolveMode \/ SolveStep3

\* FdmaTensor<2>::solve with the modes of step 2 taken one at a time
SpecModes == InitModes /\ [][NextModes]_vars

\* Everything but pde and loop
notTime == <<basesVars, stencilVars, tensorVars, hist, status, expected>>

\* integrate is at the given position of its loop
In(pc) == pde # None /\ loop # None /\ loop.pc = pc

\* pde.update(); timestep += 1
LoopUpdate ==
    /\ In("update")
    /\ \E val \in DivSamples : \E c \in {"fin", "nan"} : pde' = Update(pde, val, c)
    /\ loop' = [loop EXCEPT !.pc = "save", !.timestep = @ + 1,
                            !.calls = Append(@, "update")]
    /\ UNCHANGED notTime

\* lines 44-51: pde.write() if a save is due
LoopSave ==
    /\ In("save")
    /\ IF loop.save_intervall # None /\ SaveDue(pde, loop.save_intervall.val)
       THEN /\ pde' = Write(pde)
            /\ loop' = [loop EXCEPT !.pc = "time", !.calls = Append(@, "write")]
       ELSE /\ pde' = pde
            /\ loop' = [loop EXCEPT !.pc = "time"]
    /\ UNCHANGED notTime

\* lines 54-57: break at the time limit
LoopTimeCheck ==
    /\ In("time")
    /\ loop' = [loop EXCEPT !.pc = IF TimeLimit(pde, loop) THEN "returned" ELSE "steps"]
    /\ UNCHANGED <<notTime, pde>>

\* lines 58-61: break at the timestep limit
LoopStepCheck ==
    /\ In("steps")
    /\ loop' = [loop EXCEPT !.pc = AfterStepCheck(loop)]
    /\ UNCHANGED <<notTime, pde>>

LoopExitDone(p) ==
    /\ pde' = p
    /\ loop' = [loop EXCEPT !.pc = IF p.exited THEN "returned" ELSE "update",
                            !.calls = Append(@, "exit")]

\* lines 62-65: break if pde.exit()
LoopExit ==
    /\ In("exit")
    /\ \E val \in DivSamples : LoopExitDone(NavierExit(pde, val))
    /\ UNCHANGED notTime

NextIntegrate == LoopUpdate \/ LoopSave \/ LoopTimeCheck \/ LoopStepCheck \/ LoopExit

\* integrate on a Navier2DPeriodic
SpecIntegrate == InitIntegrate /\ [][NextIntegrate]_vars

\* integrate, given that update, write and exit return
SpecIntegrateLive == SpecIntegrate /\ WF_vars(NextIntegrate)

NextNavier ==
    \/ UpdateCapture \/ UpdateSolveUx \/ UpdateSolveUy \/ UpdateDivergence
    \/ UpdateSolvePres \/ UpdateProjectVelocity \/ UpdateUpdatePres
    \/ UpdateSolveTemp \/ UpdateTime \/ Exit

\* Navier2DPeriodic: update phase by phase, and exit between updates
SpecNavier == InitNavier /\ [][NextNavier]_vars

NextDiagnostics ==
    \/ UpdateCapture \/ UpdateSolveUx \/ UpdateSolveUy \/ UpdateDivergence
    \/ UpdateSolvePres \/ UpdateProjectVelocity \/ UpdateUpdatePres
    \/ UpdateSolveTemp \/ UpdateTime \/ Exit \/ NavierWrite

\* update(), exit() and write() of a Navier2DPeriodic in any order
SpecDiagnostics == InitDiagnostics /\ [][NextDiagnostics]_vars

\* The solvers on right-hand sides of right and wrong extents
SpecSolveMismatch == InitSolveMismatch /\ [][NextSolver]_vars

\* Every operation on arrays of right and wrong extents
SpecMismatch == InitMismatch /\ [][NextMismatch]_vars

---------------------------------------------------------------------------
(* Reference definitions the properties are stated with                    *)

Composite == basis.kind \in {"ChebDirichlet", "ChebNeumann"}

LastOp == IF hist = <<>> THEN "none" ELSE hist[Len(hist)]

\* sum of p*a[p] over the p in from..n-1 with p + k odd (indices from zero)
RECURSIVE OddSum(_, _, _)
OddSum(a, k, from) ==
    IF from > Len(a) - 1 THEN Zero
    ELSE RAdd(IF (from + k) % 2 = 1 THEN RMul(RInt(from), a[from + 1], 2) ELSE Zero,
              OddSum(a, k, from + 1))

\* The coefficients b of the derivative of the Chebyshev series of a
StandardDerivative(a) ==
    [kk \in 1..Len(a) |->
        IF kk = Len(a) THEN Zero
        ELSE IF kk = 1 THEN OddSum(a, 0, 1)
        ELSE RMul(RInt(2), OddSum(a, kk - 1, kk), 2)]

RECURSIVE Derivative(_, _)
Derivative(a, k) == IF k = 0 THEN a ELSE Derivative(StandardDerivative(a), k - 1)

\* The n x m stencil matrix S: S[i][i] = diag[i], S[i+2][i] = low2[i]
StencilMatrix(st) ==
    [i \in 1..st.n |-> [j \in 1..st.m |->
        IF i = j THEN st.diag[j] ELSE IF i = j + 2 THEN st.low2[j] ELSE Zero]]

\* c solves the normal equations (S^T S) c = S^T p
SolvesNormalEquations(st, c, p) ==
    LET r == Radicand(st.n)
        S == StencilMatrix(st)
    IN  MatVec(MatMul(Transpose(S), S, r), c, r) = MatVec(Transpose(S), p, r)

\* M without its first row and its column j
Minor(M, j) ==
    [i \in 1..(Len(M) - 1) |-> [k \in 1..(Len(M) - 1) |-> M[i + 1][IF k < j THEN k ELSE k + 1]]]

\* The determinant, expanded along the first row
RECURSIVE Det(_)
Det(M) ==
    IF Len(M) = 1 THEN M[1][1]
    ELSE SumSeq([j \in 1..Len(M) |->
            IF M[1][j] = Zero THEN Zero
            ELSE RMul(IF j % 2 = 1 THEN M[1][j] ELSE RNeg(M[1][j]), Det(Minor(M, j)), 2)])

Nonsingular(M) == Det(M) # Zero

\* The elimination of M without pivoting divides by no zero
PivotsNonzero(M) ==
    \A i \in 1..Len(M) : sweep(from_matrix_raw(M)).dia[i] \notin {Zero, NaN}

\* The matrix A + l C of the decoupled system of an eigenvalue l
RowMatrix(A, C, l) ==
    [i \in 1..Len(A) |-> [j \in 1..Len(A) |-> RAdd(A[i][j], RMul(l, C[i][j], 2))]]

\* A X C^T + C X A^T
TensorOperator(A, C, X) ==
    [i \in 1..Len(X) |->
        AddSeq(dot(dot(A, X), Transpose(C))[i], dot(dot(C, X), Transpose(A))[i])]

\* Whether an array of the operation op has a wrong extent along the axis
Mismatch(op) ==
    IF op \in {"forward", "backward"}
    THEN Extent(data, axis) # basis.n \/ Extent(vhat, axis) # basis.m
    ELSE IF op = "differentiate"
    THEN Extent(vhat, axis) # basis.m \/ Extent(diff, axis) # basis.n
    ELSE Extent(composite, axis) # stencil.m \/ Extent(parent, axis) # stencil.n

---------------------------------------------------------------------------
(* Properties                                                              *)

\* C1: for a Chebyshev basis of size n and an array A of extent n along the
\* axis (0 or 1), forward followed by backward returns A
C1_ChebyshevRoundTrip ==
    (basis.kind = "Chebyshev" /\ hist = <<"forward", "backward">>)
        => (status = "ok" /\ data = expected.data)

C1_Witness ==
    /\ basis.kind = "Chebyshev" /\ basis.n = 6 /\ axis = 1
    /\ hist = <<"forward", "backward">> /\ status = "ok"
    /\ data = Ramp(NLanes, 6, 0, 1)
    /\ vhat[1][2] = <<6, 2, 5>>

\* C2 as claimed: for either stencil and every composite vector c,
\* from_parent(to_parent(c)) returns c
C2_StencilInverse ==
    (stencil # None /\ LastOp = "from_parent" /\ hist[1] = "to_parent" /\ Len(hist) = 2)
        => (status = "ok" /\ composite = expected.composite)

C4_SpectralRoundTrip ==
    /\ (Composite /\ hist = <<"backward">>) => (status = "ok" /\ vhat = expected.vhat)
    /\ (Composite /\ hist = <<"backward", "forward">>)
          => (status = "ok" /\ vhat = expected.vhat)

\* C5: for a Chebyshev basis of size n >= 3, differentiate with order 1
\* returns the standard derivative coefficients of every lane, and with order
\* k the result of k successive applications
C5_Derivative ==
    (basis.kind = "Chebyshev" /\ basis.n >= 3 /\ hist = <<"differentiate">>)
        => /\ status = "ok"
           /\ Lanes(diff, axis) =
                [l \in 1..Extent(diff, 1 - axis) |->
                    Derivative(Lanes(expected.vhat, axis)[l], order)]

C5_Witness ==
    /\ basis.kind = "Chebyshev" /\ basis.n = 6 /\ axis = 0
    /\ hist = <<"differentiate">> /\ order = 2 /\ status = "ok"
    /\ vhat = Ramp(6, NLanes, 0, 1)
    /\ diff[1][1] # Zero

\* C6: for a stencil of parent size n >= 4, to_parent writes the parent
\* lanes as the banded product S c and leaves the composite array as it was
C6_BandedProduct ==
    (stencil # None /\ hist = <<"to_parent">>)
        => /\ status = "ok"
           /\ Lanes(parent, axis) =
                [l \in 1..Extent(parent, 1 - axis) |->
                    MatVec(StencilMatrix(stencil), Lanes(composite, axis)[l],
                           Radicand(stencil.n))]
           /\ composite = expected.composite

C6_Witness ==
    /\ stencil = neumann(6) /\ axis = 1
    /\ hist = <<"to_parent">> /\ status = "ok"
    /\ composite = Ramp(NLanes, 4, 1, 1)
    /\ parent[1][6] = <<-36, 0, 25>>

\* C7 as claimed: for every parent vector p, from_parent returns the
\* solution c of the normal equations (S^T S) c = S^T p
C7_NormalEquations ==
    (stencil # None /\ hist = <<"from_parent">>)
        => /\ status = "ok"
           /\ \A l \in 1..Extent(parent, 1 - axis) :
                SolvesNormalEquations(stencil, Lanes(composite, axis)[l],
                                      Lanes(parent, axis)[l])

\* C8: an operation on an array whose extent along the axis differs from the
\* expected size panics and writes no element of any array
C8_MismatchPanics ==
    [][(hist' # hist /\ Mismatch(hist'[Len(hist')]))
          => /\ status' = "panic"
             /\ data' = data /\ vhat' = vhat /\ diff' = diff
             /\ composite' = composite /\ parent' = parent]_vars

C8_Witness ==
    /\ basis.kind = "Chebyshev" /\ hist = <<"differentiate">> /\ status = "panic"
    /\ Extent(vhat, axis) = basis.n /\ Extent(diff, axis) = basis.n + 1
    /\ diff = expected.diff

C10_NonsingularSolve ==
    (mats.N = 1 /\ hist = <<"from_matrix", "solve">> /\ Nonsingular(mats.a[1]))
        => (status = "ok" /\ MatVec(mats.a[1], sol, 2) = rhs)

\* C10: for FdmaTensor<1> built from a banded matrix M whose elimination
\* without pivoting meets no zero pivot, and any right-hand side b, the
\* output x of solve satisfies M x = b
C10_EliminableSolve ==
    (mats.N = 1 /\ hist = <<"from_matrix", "solve">> /\ PivotsNonzero(mats.a[1]))
        => (status = "ok" /\ MatVec(mats.a[1], sol, 2) = rhs)

C10_Witness ==
    /\ mats.N = 1 /\ hist = <<"from_matrix", "solve">> /\ status = "ok"
    /\ mats.a[1] = Band(5, -1, -1, 1, -1, FALSE)
    /\ PivotsNonzero(mats.a[1])
    /\ rhs = [i \in 1..5 |-> IF i = 5 THEN One ELSE Zero]
    /\ sol # Zeros(5)
    /\ MatVec(mats.a[1], sol, 2) = rhs

\* Whether the right-hand side does not fit the matrices the solver was built
\* from: its length is not the order of M (N = 1), or its shape is not
\* (order of a[0], order of a[1]) (N = 2)
RhsMismatch ==
    IF mats.N = 1 THEN Len(rhs) # Len(mats.a[1])
    ELSE Extent(rhs, 0) # Len(mats.a[1]) \/ Extent(rhs, 1) # Len(mats.a[2])

\* C11: solve on a right-hand side that does not match the solver (N = 1:
\* length # n; N = 2: shape[0] # number of eigenvalues or shape[1] # n)
\* panics and leaves every element of the output as it was
C11_SolveMismatchPanics ==
    [][(hist' = Append(hist, "solve") /\ RhsMismatch)
          => (status' = "panic" /\ sol' = sol /\ rhs' = rhs)]_vars

C11_Witness ==
    /\ mats # None /\ mats.N = 2 /\ hist = <<"from_matrix", "solve">>
    /\ status = "panic"
    /\ Len(mats.a[1]) = 2 /\ Len(mats.a[2]) = 3
    /\ Extent(rhs, 0) = 3 /\ Extent(rhs, 1) = 3
    /\ sol = Ramp(2, 3, 2, 1)

\* The solver as its constructor returns it for the arguments mats
Built ==
    IF "mv" \in DOMAIN mats
    THEN from_space(mats.a, mats.c, mats.is_diag, mats.mv, mats.N).val
    ELSE from_matrix(mats.a, mats.c, mats.is_diag, mats.N).val

\* solve of the solver t on the input x and a zeroed output
SolveOf(t, x) ==
    IF "matvec" \in DOMAIN t
    THEN (IF t.N = 1 THEN Poisson1Solve(t, x, Zeros(Len(x)))
          ELSE Poisson2Solve(t, x, Zeros2(Len(x), Len(x[1]))))
    ELSE (IF t.N = 1 THEN Tensor1Solve(t, x, Zeros(Len(x)))
          ELSE Tensor2Solve(t, x, Zeros2(Len(x), Len(x[1]))))

\* C12: every solve call of a built FdmaTensor<1>, FdmaTensor<2> or Poisson
\* leaves the solver as its constructor returned it and the input as it was,
\* and its output is a function of the input alone (the output a fresh
\* solver writes into a zeroed array), whatever the output held before and
\* whatever was solved before
C12_SolvePure ==
    [][(hist' = Append(hist, "solve"))
          => /\ tensor' = tensor /\ tensor = Built
             /\ rhs' = rhs
             /\ sol' = SolveOf(Built, rhs).out
             /\ status' = Outcome(SolveOf(Built, rhs))]_vars

C12_Witness ==
    /\ mats # None /\ mats.N = 2 /\ "mv" \in DOMAIN mats /\ ~mats.is_diag[1]
    /\ hist = <<"from_space", "solve", "solve">> /\ status = "ok"
    /\ rhs = Spike(3, 3, 2, 2, 1)
    /\ sol # Zeros2(3, 3) /\ sol # Ramp(3, 3, 1, 1)
    /\ \A i \in 1..3 : \A j \in 1..3 : IsFinite(sol[i][j])

\* C13: in step 2 of FdmaTensor<2>::solve the solve of mode i writes row i
\* of the output and no other row, row i being the solution of
\* (A + lam[0][i] C) x = row i of the forward-transformed right-hand side;
\* and the modes taken in any order give the output of solve
C13_ModesIndependent ==
    [][/\ (loop # None /\ loop' # None /\ loop'.done # loop.done /\ status' = "ok")
            => \A i \in 1..Len(sol) :
                 sol'[i] = IF i \in loop'.done \ loop.done
                           THEN RowSolve(tensor, loop.fhat[i], tensor.lam[1][i])
                           ELSE sol[i]
       /\ (hist' = Append(hist, "solve"))
            => sol' = Tensor2Solve(tensor, rhs, expected.sol).out]_vars

C13_Witness ==
    /\ loop # None /\ loop.pc = "step2" /\ loop.done = {1, 3} /\ status = "ok"
    /\ ~mats.is_diag[1]
    /\ sol[2] = loop.fhat[2] /\ sol[1] # loop.fhat[1] /\ sol[3] # loop.fhat[3]
    /\ loop.helper = loop.fhat[1]
    /\ \A j \in 1..3 : IsFinite(sol[1][j]) /\ IsFinite(sol[3][j])

\* The eigenvalues of axis 0 as claimed for a Poisson solver po, base being
\* the eigenvalues from_matrix computed
LamAsClaimed(po, base) ==
    IF AbsLess(base[1], Eps)
    THEN /\ po.notice
         /\ po.solver.lam[1][1] = RSub(base[1], Eps) /\ po.solver.lam[1][1] # Zero
         /\ \A i \in 2..Len(base) : po.solver.lam[1][i] = base[i]
    ELSE ~po.notice /\ po.solver.lam[1] = base

\* C14 as claimed: a 2-D Poisson solver whose zero mode of axis 0 is singular
\* (|lam[0][0]| < 1e-10) has that eigenvalue perturbed by the epsilon and
\* every other eigenvalue of axis 0 unchanged, a notice printed and the
\* construction completed; otherwise no eigenvalue is modified
C14_OnlyZeroModePerturbed ==
    (tensor # None /\ "matvec" \in DOMAIN tensor /\ tensor.N = 2)
        => /\ status = "ok"
           /\ LamAsClaimed(tensor, from_matrix(mats.a, mats.c, mats.is_diag, 2).val.lam[1])

\* C15: once a pressure solve has run, the [0, 0] mode of pres[1].vhat is
\* zero at every position of update and between updates, and it was zero
\* when project_velocity, update_pres and solve_temp ran and when update
\* returned.
C15_ZeroModeStaysZero ==
    (pde # None /\ pde.pres1.vhat > 0) =>
        /\ pde.pres1.mode00 = "zero"
        /\ \A k \in DOMAIN pde.log :
             "pres1" \in DOMAIN pde.log[k] => pde.log[k].pres1.mode00 = "zero"

\* Two updates have run, each with its pressure solve, projection, pressure
\* update and temperature solve
C15_Witness ==
    /\ pde # None /\ pde.pc = "idle" /\ pde.pres1.vhat = 2
    /\ Len(pde.log) = 9
    /\ pde.log[6].phase = "project_velocity" /\ pde.log[6].pres1.vhat = 2
    /\ pde.log[7].phase = "update_pres"

\* The number of calls of the given name
Count(calls, name) == Cardinality({k \in DOMAIN calls : calls[k] = name})

\* The stop criteria as they stand after the last update: the time limit,
\* the timestep limit, a true exit()
TimeCriterion == pde.time * TicksPerUnit + pde.dt >= loop.max_time

StepCriterion == Count(loop.calls, "update") >= MAX_TIMESTEP

ExitCriterion ==
    /\ loop.calls # <<>> /\ loop.calls[Len(loop.calls)] = "exit"
    /\ pde.exited

Returned == loop # None /\ loop.pc = "returned"

\* integrate is back at the head of its loop after an update: no stop
\* criterion held; it has returned: an update has run and a criterion
\* holds; it never runs more than MAX_TIMESTEP updates
StopsAtFirstCriterion ==
    /\ Count(loop.calls, "update") <= MAX_TIMESTEP
    /\ (loop.pc = "update" /\ loop.calls # <<>>) =>
          ~TimeCriterion /\ ~StepCriterion /\ ExitCriterion = FALSE /\ ~pde.exited
    /\ Returned =>
          /\ loop.calls # <<>>
          /\ TimeCriterion \/ StepCriterion \/ ExitCriterion
          /\ pde.time = pde.dt * Count(loop.calls, "update")

\* C16: integrate terminates; it returns after the first update at which
\* get_time() + 1e-4 * dt >= max_time, or the number of updates has reached
\* MAX_TIMESTEP, or exit() returns true, never while none of them holds,
\* and never after more than MAX_TIMESTEP updates.
C16_IntegrateTerminates == []StopsAtFirstCriterion /\ <>Returned

\* integrate has returned at the timestep limit, the time limit being out
\* of reach and exit() false after every update
C16_Witness ==
    /\ Returned /\ loop.timestep = MAX_TIMESTEP
    /\ ~TimeCriterion /\ ~pde.exited /\ pde.dt > 0
    /\ Count(loop.calls, "exit") = MAX_TIMESTEP - 1

\* exit() was called after call number k
ExitAfter(k) == \E j \in DOMAIN loop.calls : j > k /\ loop.calls[j] = "exit"

\* exit() was called between the updates that are calls number k and k2
ExitBetween(k, k2) == \E j \in DOMAIN loop.calls : k < j /\ j < k2 /\ loop.calls[j] = "exit"

PolledBetweenUpdates ==
    \A k \in DOMAIN loop.calls : \A k2 \in DOMAIN loop.calls :
        (k < k2 /\ loop.calls[k] = "update" /\ loop.calls[k2] = "update") => ExitBetween(k, k2)

\* C17 as stated: every update() is followed by exit() before the next
\* update() and before integrate returns.
C17_ExitAfterEveryUpdate ==
    /\ PolledBetweenUpdates
    /\ Returned => \A k \in DOMAIN loop.calls : loop.calls[k] = "update" => ExitAfter(k)

\* C17, amended: every update() is followed by exit() before the next
\* update(); integrate returns without polling exit() after its last
\* update when the time limit or the timestep limit ends the loop, and
\* after a poll that returned true otherwise.
C17_ExitBeforeNextUpdate ==
    /\ PolledBetweenUpdates
    /\ Returned =>
          \A k \in DOMAIN loop.calls :
              (loop.calls[k] = "update" /\ Count(loop.calls, "update") = Count(SubSeq(loop.calls, 1, k), "update"))
                  => (ExitAfter(k) <=> (~TimeCriterion /\ ~StepCriterion))

\* integrate has returned at the time limit after two updates, with one
\* poll of exit(), between them
C17_Witness ==
    /\ Returned /\ TimeCriterion
    /\ Count(loop.calls, "update") = 2
    /\ Count(loop.calls, "exit") = 1
    /\ loop.calls[Len(loop.calls)] # "exit"

\* NaN or an infinity in a real or imaginary part
NonFinite(arr) ==
    \E k \in DOMAIN arr : {arr[k].re, arr[k].im} \cap {"inf", "ninf", "nan"} # {}

\* C18: exit() returns true if the divergence it has computed holds a
\* non-finite value, and false if all its values are finite.
C18_ExitOnNonFinite ==
    [][(pde # None /\ pde.pc = "idle" /\ pde'.pc = "idle")
          => (pde'.exited <=> NonFinite(pde'.div.val))]_vars

\* The phases of update, in the order of the claim
Phases ==
    <<"capture", "solve_ux", "solve_uy", "divergence", "solve_pres",
      "project_velocity", "update_pres", "solve_temp", "time">>

\* The phases an update has run so far are the first of Phases, in order
InOrder(log) ==
    /\ Len(log) <= Len(Phases)
    /\ \A k \in DOMAIN log : log[k].phase = Phases[k]

\* What the phases of a finished update have read: the solves convect with
\* the velocities captured at entry, uy takes the buoyancy captured at
\* entry, the divergence is the one of the velocities just solved for, and
\* the Poisson solve and the pressure update take that divergence
DataFlow(log) ==
    /\ log[2].conv = <<log[1].ux, log[1].uy>> /\ log[2].old = log[1].ux
    /\ log[3].conv = <<log[1].ux, log[1].uy>> /\ log[3].buoy = log[1].temp
    /\ log[4].ux = log[1].ux + 1 /\ log[4].uy = log[1].uy + 1
    /\ log[5].f = <<log[4].ux, log[4].uy>>
    /\ log[6].ux = log[4].ux /\ log[6].uy = log[4].uy
    /\ log[7].div = log[5].f
    /\ log[8].conv = <<log[1].ux, log[1].uy>>

\* C19: update runs its phases in the fixed order capture, solve of ux,
\* solve of uy, divergence, pressure solve, velocity correction, pressure
\* update, temperature solve, time += dt once; the convection velocities
\* of the three solves are the ones captured before any solve of the step.
C19_UpdatePhaseOrder ==
    pde # None =>
        /\ InOrder(pde.log)
        /\ (pde.pc = "idle") = (Len(pde.log) \in {0, Len(Phases)})
        /\ (pde.pc = "idle" /\ pde.log # <<>>) =>
              /\ DataFlow(pde.log)
              /\ pde.time = pde.log[1].time + pde.dt
              /\ pde.time = pde.dt * pde.temp

\* The second update has returned: its solves have convected with the
\* velocities the first update left, which the second has since replaced
C19_Witness ==
    /\ pde # None /\ pde.pc = "idle" /\ Len(pde.log) = 9
    /\ pde.log[8].conv = <<2, 2>> /\ pde.ux.vhat = 4 /\ pde.uy.vhat = 4
    /\ pde.time = 2 * pde.dt

\* exit() returns true exactly if a part of the divergence is NaN
ExitOnNaN ==
    [][(pde # None /\ pde.pc = "idle" /\ pde'.pc = "idle")
          => (pde'.exited <=> \E k \in DOMAIN pde'.div.val :
                                 "nan" \in {pde'.div.val[k].re, pde'.div.val[k].im})]_vars

\* floor(1e5 * sqrt r) for the radicands of the model
SqrtBelow(r) == IF r = 5 THEN 223606 ELSE IF r = 3 THEN 173205 ELSE 141421

\* Integers below and above 1e5 * x, at most three apart
Below(x, r) ==
    (x[1] * 100000 + x[2] * (IF x[2] >= 0 THEN SqrtBelow(r) ELSE SqrtBelow(r) + 1)) \div x[3]

Above(x, r) ==
    (x[1] * 100000 + x[2] * (IF x[2] >= 0 THEN SqrtBelow(r) + 1 ELSE SqrtBelow(r))) \div x[3] + 1

\* |x - e / 1e5| <= 1e-3 for certain (approx_eq does not panic)
Within(x, e, r) == IsFinite(x) /\ Below(x, r) >= e - 100 /\ Above(x, r) <= e + 100

\* |x - e / 1e5| > 1e-3 for certain (approx_eq panics)
Outside(x, e, r) == ~IsFinite(x) \/ Above(x, r) < e - 100 \/ Below(x, r) > e + 100

\* forward has run, once, on the counting array of the given row stride
ForwardOf(stride) ==
    /\ basis # None /\ basis.n = nx /\ axis = 0
    /\ expected.data = Counting(stride)
    /\ hist = <<"forward">>

\* C20 as stated: the forward transform of the lane [0, 1, 2, 3, 4, 5] is
\* [10.0, 8.3777, 0.0, 1.2222, 0.0, 0.4] within 1e-3.
C20_ForwardOfZeroToFive ==
    ForwardOf(1) => \A i \in 1..nx : ~Outside(vhat[i][1], Expected(1)[i], Radicand(nx))

\* C20, amended: the forward transform along axis 0 of the array of
\* test_cheby_forward, whose lane j is [j, 4 + j, .., 20 + j], is
\* [10.0 + j, 8.3777, 0.0, 1.2222, 0.0, 0.4] within 1e-3; the one of
\* [0, 1, 2, 3, 4, 5] is not; backward of the result gives the input back.
C20_ForwardOfTestArray ==
    /\ ForwardOf(ny) =>
          \A i \in 1..nx : \A j \in 1..NLanes :
              Within(vhat[i][j], Expected(j)[i], Radicand(nx))
    /\ ForwardOf(1) => \E i \in 1..nx : Outside(vhat[i][1], Expected(1)[i], Radicand(nx))
    /\ (hist = <<"forward", "backward">> /\ basis # None /\ basis.n = nx)
          => data = expected.data

\* The array of the test has gone forward and back
C20_Witness ==
    /\ basis # None /\ basis.n = nx /\ axis = 0
    /\ expected.data = Counting(ny)
    /\ hist = <<"forward", "backward">>
    /\ Within(vhat[2][1], 837770, 5)
    /\ data[nx][1] = RInt(20)

\* differentiate of one part of a linear combination, into a zeroed output
DiffOfPart(f) ==
    TransformDifferentiate(basis, f, Zeros2(Rows(basis.n, axis), Cols(basis.n, axis)),
                           order, axis, {})

\* C21: differentiate is linear: the derivative of order k of a*f + b*g is
\* a times the one of f plus b times the one of g, for Chebyshev and
\* composite bases, whatever the output array held before; differentiate
\* of the combination panics only where the one of f and of g panics.
C21_DifferentiateLinear ==
    (basis # None /\ LastOp = "differentiate" /\ "f" \in DOMAIN expected) =>
        \A rf \in {DiffOfPart(expected.f)} : \A rg \in {DiffOfPart(expected.g)} :
            /\ (status = "ok") = rf.ok
            /\ (status = "ok") = rg.ok
            /\ status = "ok" =>
                  diff = Combine(expected.a, rf.out, expected.b, rg.out, Radicand(basis.n))

\* A second derivative of 2*f - g for a composite basis
C21_Witness ==
    /\ basis # None /\ basis.kind = "ChebNeumann" /\ basis.n = 6
    /\ LastOp = "differentiate" /\ order = 2 /\ status = "ok"
    /\ "f" \in DOMAIN expected /\ expected.a = 2 /\ expected.b = -1
    /\ expected.f # expected.g
    /\ diff[1][1] # Zero

\* The main diagonal of a matrix
MainDiagonal(M) == [i \in 1..Len(M) |-> M[i][i]]

\* Row i of X solves (A + l C) x = row i of B, A + l C being eliminated
\* without a zero pivot
RowsSolve(A, C, lams, X, B) ==
    \A i \in 1..Len(X) :
        PivotsNonzero(RowMatrix(A, C, lams[i]))
            => MatVec(RowMatrix(A, C, lams[i]), X[i], 2) = B[i]

\* The solver is a 2-D one, built, with the given flag for axis 0
BuiltWithFlag(d) ==
    /\ mats # None /\ mats.N = 2 /\ mats.is_diag[1] = d
    /\ tensor # None /\ status = "ok"

\* C22: with a_is_diag[0] = true the eigenvalues of axis 0 are the main
\* diagonal of a[0], c[0] plays no part (a singular one included), no fwd
\* and no bwd is stored, and row i of the output of solve is the solution
\* of (A_1 + a[0][i][i] C_1) x = row i of the input; with a_is_diag[0] =
\* false fwd and bwd are stored and solve applies both.
C22_DiagonalAxis ==
    /\ (mats # None /\ mats.N = 2 /\ mats.is_diag[1] /\ hist = <<"from_matrix">>)
          => BuiltWithFlag(TRUE)
    /\ BuiltWithFlag(TRUE) =>
          /\ tensor.lam[1] = MainDiagonal(mats.a[1])
          /\ ~tensor.fwd[1].some /\ ~tensor.bwd[1].some
          /\ tensor = from_matrix(mats.a, <<Zeros2(tensor.n, tensor.n), mats.c[2]>>,
                                  mats.is_diag, 2).val
          /\ hist = <<"from_matrix", "solve">> =>
                /\ sol = [i \in 1..Len(rhs) |-> RowSolve(tensor, rhs[i], mats.a[1][i][i])]
                /\ RowsSolve(mats.a[2], mats.c[2], MainDiagonal(mats.a[1]), sol, rhs)
    /\ BuiltWithFlag(FALSE) =>
          /\ tensor.fwd[1].some /\ tensor.bwd[1].some
          /\ hist = <<"from_matrix", "solve">> =>
                \A fhat \in {dot(tensor.fwd[1].val, rhs)} :
                    sol = dot(tensor.bwd[1].val,
                              [i \in 1..Len(rhs) |-> RowSolve(tensor, fhat[i], tensor.lam[1][i])])

\* A solver whose a[0] has an upper diagonal and whose c[0] is singular,
\* built with a_is_diag[0] = true, has solved a right-hand side
C22_Witness ==
    /\ BuiltWithFlag(TRUE) /\ hist = <<"from_matrix", "solve">>
    /\ mats.a[1][1][3] # Zero
    /\ ~Invertible(mats.c[1])
    /\ \A i \in 1..Len(sol) : \A j \in 1..Len(sol) : IsFinite(sol[i][j])
    /\ sol # rhs
    /\ sol # Zeros2(Len(sol), Len(sol))

\* The FdmaTensor of a solver, a Poisson solver holding one
FdmaTensorOf(t) == IF "matvec" \in DOMAIN t THEN t.solver ELSE t

\* The banded matrices a solver holds are those of from_matrix: for N = 1
\* a swept once and c as it was handed in, for N = 2 a and c of axis 1 as
\* they were handed in
StoredAsBuilt(t) ==
    IF t.N = 1
    THEN t.fdma = <<sweep(from_matrix_raw(mats.a[1])), from_matrix_raw(mats.c[1])>>
    ELSE t.fdma = <<from_matrix_raw(mats.a[2]), from_matrix_raw(mats.c[2])>>

\* The back-substitution of row i of fhat on A + lam_i C, combined from the
\* stored matrices (those handed to from_matrix, see StoredAsBuilt) and
\* swept once
FreshRowSolve(t, fhat, i) ==
    FdmaSolve(sweep(FdmaAdd(t.fdma[1], FdmaScale(t.fdma[2], t.lam[1][i]))), fhat[i])

\* The output of solve from back-substitutions on swept matrices: for
\* N = 1 the stored fdma[0], which is a swept once (see StoredAsBuilt)
SweptSolution(t, b) ==
    IF t.N = 1 THEN FdmaSolve(t.fdma[1], b)
    ELSE IF t.bwd[1].some
    THEN dot(t.bwd[1].val,
             [i \in 1..Len(b) |-> FreshRowSolve(t, dot(t.fwd[1].val, b), i)])
    ELSE [i \in 1..Len(b) |-> FreshRowSolve(t, b, i)]

\* C23: the banded matrices stored in an FdmaTensor stay as from_matrix
\* left them through every solve: for N = 1 fdma[0] swept once and c unused,
\* for N = 2 fdma[0] and fdma[1] unswept; and the output of solve comes
\* from back-substitutions on matrices swept once: the stored one for
\* N = 1, A + lam_i C freshly combined for every row for N = 2.
C23_SweptBeforeSolve ==
    [][/\ tensor' # None => StoredAsBuilt(FdmaTensorOf(tensor'))
       /\ (hist' = Append(hist, "solve") /\ "matvec" \notin DOMAIN tensor)
             => (status' = "ok" /\ sol' = SweptSolution(tensor, rhs))]_vars

\* A 1-D solver whose c is not its a has solved twice, and so has a 2-D one
C23_Witness ==
    /\ tensor # None /\ "matvec" \notin DOMAIN tensor /\ status = "ok"
    /\ hist = <<"from_matrix", "solve", "solve">>
    /\ mats.N = 1 /\ mats.a[1] # mats.c[1]
    /\ sol = SweptSolution(tensor, rhs) /\ sol # rhs
    /\ \A i \in 1..Len(sol) : IsFinite(sol[i])

\* C24: FdmaTensor<2>::solve on an M x N right-hand side with M # N that
\* matches the solver (M eigenvalues, banded matrices of order N) completes
\* without a panic and fills every entry of the output with the solution
C24_RectangularSolveCompletes ==
    (/\ tensor # None /\ mats.N = 2 /\ Len(mats.a[1]) # Len(mats.a[2])
     /\ ~RhsMismatch
     /\ hist = <<"from_matrix", "solve">>)
        => (status = "ok" /\ sol = SweptSolution(tensor, rhs))

\* Whether a base is a Chebyshev or a composite Chebyshev base
IsChebyshev(base) == base = "Chebyshev" \/ base = "CompositeChebyshev"

\* The right-hand side of the tensor solve: the input multiplied by the
\* MatVecs there are, of axis 0 first, then of axis 1
Premultiplied(po, input) ==
    IF po.N = 1
    THEN IF po.matvec[1].some THEN MatVec(po.matvec[1].val, input, 2) ELSE input
    ELSE Only({IF po.matvec[2].some THEN dot(x0, Transpose(po.matvec[2].val)) ELSE x0 :
                 x0 \in {IF po.matvec[1].some THEN dot(po.matvec[1].val, input) ELSE input}})

\* One solve of the FdmaTensor of a Poisson solver
TensorSolveOnce(po, b, output) ==
    IF po.N = 1 THEN Tensor1Solve(po.solver, b, output) ELSE Tensor2Solve(po.solver, b, output)

C25_WitnessNoMatVec ==
    /\ mats # None /\ "bases" \in DOMAIN mats
    /\ mats.bases = <<"FourierR2c", "FourierC2c">>
    /\ hist = <<"from_space", "solve">> /\ status = "ok"

\* The call after the call i of integrate is write()
WriteAfter(i) == i < Len(loop.calls) /\ loop.calls[i + 1] = "write"

\* The save block after the update at position i of the calls has run
SaveBlockDone(i) == i < Len(loop.calls) \/ loop.pc # "save"

\* The index k (from 1) of the update at position i of the calls
UpdateIndex(i) == Count(SubSeq(loop.calls, 1, i), "update")

\* C26: with the time starting at 0 and advancing by dt > 0 per update and
\* save_intervall = Some(s * dt), s >= 1 an integer, write() is called
\* exactly after the updates whose index k has k mod s = 0; with
\* save_intervall = None it is never called.  A write() comes at most once
\* per update, right after the update and before the stop checks.
C26_WriteEveryS ==
    loop # None =>
      /\ pde.time = pde.dt * Count(loop.calls, "update")
      /\ \A i \in DOMAIN loop.calls :
            loop.calls[i] = "write" => (i > 1 /\ loop.calls[i - 1] = "update")
      /\ \A i \in DOMAIN loop.calls :
            (loop.calls[i] = "update" /\ SaveBlockDone(i)) =>
               IF loop.save_intervall = None THEN ~WriteAfter(i)
               ELSE \A s \in 1..MaxSave :
                      (pde.dt > 0 /\ loop.save_intervall.val = s * pde.dt)
                         => (WriteAfter(i) <=> UpdateIndex(i) % s = 0)

\* integrate with save_intervall = 2 * dt has run three updates and has
\* written after the second one only
C26_Witness ==
    /\ loop # None /\ loop.pc = "returned"
    /\ pde.dt = 1 /\ loop.save_intervall = Some(2)
    /\ loop.calls = <<"update", "exit", "update", "write", "exit", "update">>

\* The sum of p[k] (weighted: of k^2 * p[k]) over the indices k, from 0,
\* of the parity par
ParitySum(p, par, weighted, r) ==
    SumSeq([j \in 1..Len(p) |->
              IF (j - 1) % 2 # par THEN Zero
              ELSE IF weighted THEN RMul(RInt((j - 1) * (j - 1)), p[j], r) ELSE p[j]])

\* Both sums of a lane of parent coefficients are 0
BoundaryCondition(p, weighted, r) ==
    ParitySum(p, 0, weighted, r) = Zero /\ ParitySum(p, 1, weighted, r) = Zero

\* C27: the parent coefficients to_parent writes satisfy the boundary
\* condition of the stencil in every lane: Dirichlet, the sums of p[k] over
\* the even and over the odd k are 0; Neumann, the sums of k^2 p[k] are.
C27_ParentMeetsBoundary ==
    (stencil # None /\ hist # <<>> /\ hist[Len(hist)] = "to_parent" /\ status = "ok")
        => \A l \in 1..Extent(parent, 1 - axis) :
              \A p \in {Lanes(parent, axis)[l]} :
                 /\ stencil.low2 = dirichlet(stencil.n).low2
                       => BoundaryCondition(p, FALSE, Radicand(stencil.n))
                 /\ stencil.low2 = neumann(stencil.n).low2
                       => BoundaryCondition(p, TRUE, Radicand(stencil.n))

\* to_parent of the Neumann stencil of size 6 has written a lane with
\* nonzero coefficients of both parities
C27_Witness ==
    /\ stencil # None /\ stencil.n = 6 /\ stencil.low2 = neumann(6).low2
    /\ hist = <<"to_parent">> /\ status = "ok"
    /\ \E l \in 1..Extent(parent, 1 - axis) :
          /\ Lanes(parent, axis)[l][3] # Zero /\ Lanes(parent, axis)[l][4] # Zero
          /\ Lanes(parent, axis)[l][5] # Zero /\ Lanes(parent, axis)[l][6] # Zero

\* to_parent of the Dirichlet stencil has written a lane that is not zero
C27_WitnessDirichlet ==
    /\ stencil # None /\ stencil.low2 = dirichlet(stencil.n).low2
    /\ hist = <<"to_parent">> /\ status = "ok"
    /\ \E l \in 1..Extent(parent, 1 - axis) :
          Lanes(parent, axis)[l][1] # Zero /\ Lanes(parent, axis)[l][2] # Zero

\* The last k entries of every lane of arr along the axis are zero
TrailingZeros(arr, ax, k) ==
    \A l \in 1..Extent(arr, 1 - ax) : \A j \in 1..Extent(arr, ax) :
        j > Extent(arr, ax) - k => Lanes(arr, ax)[l][j] = Zero

Min(a, b) == IF a < b THEN a ELSE b

\* The input of differentiate in parent space: the input itself for a
\* Chebyshev basis, to_parent of it for a composite basis
ParentOfInput ==
    IF basis.kind = "Chebyshev" THEN vhat
    ELSE StencilToParent(basis.stencil, vhat, Zeros2(Extent(diff, 0), Extent(diff, 1)),
                         axis).out

\* C28 as stated: on a basis of size n >= 3, Chebyshev or composite,
\* differentiate of order k >= 1 leaves the last min(k, n) coefficients of
\* every lane zero, and of order 0 an unchanged copy of the input
C28_ZerosOrCopyOfInput ==
    (basis # None /\ basis.n >= 3 /\ hist # <<>>)
        => /\ status = "ok"
           /\ order >= 1 => TrailingZeros(diff, axis, Min(order, basis.n))
           /\ order = 0 => diff = vhat

\* C28, amended: of order 0 the output is the input in parent space, a copy
\* of the input for a Chebyshev basis and to_parent of it for a composite
\* basis
C28_ZerosOrParentOfInput ==
    (basis # None /\ basis.n >= 3 /\ hist # <<>>)
        => /\ status = "ok"
           /\ order >= 1 => TrailingZeros(diff, axis, Min(order, basis.n))
           /\ order = 0 => diff = ParentOfInput

\* differentiate of order n + 1 on a Chebyshev basis of size n = 3 has
\* turned an input without a zero into the zero array
C28_Witness ==
    /\ basis # None /\ basis.kind = "Chebyshev" /\ basis.n = 3 /\ order = 4
    /\ hist = <<"differentiate">> /\ status = "ok"
    /\ \A i \in 1..Len(vhat) : \A j \in 1..Len(vhat[i]) : vhat[i][j] # Zero
    /\ diff = Zeros2(Extent(vhat, 0), Extent(vhat, 1))

\* differentiate of order 0 on a composite basis has written to_parent of
\* its input
C28_WitnessComposite ==
    /\ basis # None /\ basis.kind = "ChebNeumann" /\ order = 0
    /\ hist = <<"differentiate">> /\ status = "ok"
    /\ diff # vhat /\ diff = ParentOfInput
    /\ diff # Zeros2(Extent(diff, 0), Extent(diff, 1))

\* No stop criterion is looked at before the first update
ChecksAfterUpdate ==
    loop # None =>
      /\ loop.pc \in {"save", "time", "steps", "exit", "returned"}
            => Count(loop.calls, "update") >= 1
      /\ loop.calls # <<>> => loop.calls[1] = "update"
      /\ loop.timestep = Count(loop.calls, "update")

\* After an update (and the save block) the time limit is tested first, the
\* step limit only if the time limit did not stop the loop, and exit() only
\* if neither did
ChecksInOrder ==
    /\ loop.pc = "update" => loop'.pc = "save" /\ loop'.calls = Append(loop.calls, "update")
    /\ loop.pc = "save" => loop'.pc = "time"
    /\ loop.pc = "time" =>
          /\ loop'.pc = IF TimeCriterion THEN "returned" ELSE "steps"
          /\ loop'.calls = loop.calls
    /\ loop.pc = "steps" =>
          /\ ~TimeCriterion
          /\ loop'.pc = IF StepCriterion THEN "returned" ELSE "exit"
          /\ loop'.calls = loop.calls
    /\ loop.pc = "exit" =>
          /\ ~TimeCriterion /\ ~StepCriterion
          /\ loop'.calls = Append(loop.calls, "exit")
          /\ loop'.pc = IF pde'.exited THEN "returned" ELSE "update"
    /\ loop.pc # "returned"

\* C29: every invocation of integrate calls update() at least once, also
\* when the time limit holds at entry or exit() would return true; the stop
\* criteria are evaluated only after an update, in the order time limit,
\* step limit, exit().
C29_UpdateBeforeChecks ==
    /\ []ChecksAfterUpdate
    /\ [][ChecksInOrder]_vars
    /\ <>(loop # None /\ Count(loop.calls, "update") >= 1)

\* integrate has returned after one update and no exit(), the time limit
\* having held at entry and the divergence being NaN
C29_Witness ==
    /\ Returned /\ loop.max_time = 0
    /\ loop.calls = <<"update">>
    /\ norm_l2(pde.div.val) = "nan"

\* s is a prefix of t
IsPrefix(s, t) == Len(s) <= Len(t) /\ SubSeq(t, 1, Len(s)) = s

\* The map holds the four series, each with one entry per write() so far
FourSeries ==
    pde # None =>
      /\ DOMAIN pde.diagnostics = {"time", "Nu", "Nuvol", "Re"}
      /\ \A k \in DOMAIN pde.diagnostics : Len(pde.diagnostics[k]) = Count(hist, "write")

\* A call of write() appends one value to every series, whether or not it
\* writes the field file; no other step changes a series
AppendOnly ==
    /\ \A k \in DOMAIN pde.diagnostics : IsPrefix(pde.diagnostics[k], pde'.diagnostics[k])
    /\ IF hist' = Append(hist, "write")
       THEN \A k \in DOMAIN pde.diagnostics :
               Len(pde'.diagnostics[k]) = Len(pde.diagnostics[k]) + 1
       ELSE pde'.diagnostics = pde.diagnostics

\* C30: the diagnostics of a Navier2DPeriodic always hold exactly the series
\* "time", "Nu", "Nuvol", "Re"; every write() appends one value to each,
\* with or without the field file, update() and exit() append nothing: the
\* series have the same length, the number of write() calls so far, and
\* keep their entries in place.
C30_DiagnosticsAppendOnly == []FourSeries /\ [][AppendOnly]_vars

\* Two calls of write() with an update and an exit() between them, the
\* second one not writing the field file
C30_Witness ==
    /\ pde # None /\ hist = <<"write", "write">>
    /\ pde.write_intervall = Some(2) /\ pde.dt = 1 /\ pde.exited = FALSE
    /\ pde.diagnostics["time"] = <<0, 1>> /\ pde.files = <<0>>
    /\ pde.div.val # <<>>

=============================================================================
